---- MODULE Spec2Model ----
(***************************************************************************)
(* Model of the icns command layer: the bounded-concurrency batch executor *)
(* (withConcurrency, renderMany), the local snapshot store (writeIndex,    *)
(* readIndex, clearIndex), the collection commands' source selection       *)
(* (listCollections, collectionInfo) and fuzzy resolution.                 *)
(*                                                                         *)
(* JavaScript arrays are modelled as functions over 0..n-1, so that every  *)
(* index in the model is the index of the source.                          *)
(***************************************************************************)
EXTENDS Integers, Sequences, FiniteSets, TLC

VARIABLES
    \* ---- renderMany / withConcurrency ----
    opts,        \* RenderManyOptions: failFast, concurrency (in halves), match, autoSelect
    manifest,    \* what loadRenderManifestItems will do: "ok" | "invalid" | "unreadable"
    items,       \* the loaded manifest items, array 0..n-1 of RenderManyItem
    phase,       \* position of renderMany: "called" | "sequential" | "concurrent" | "returned"
    cursor,      \* withConcurrency: the shared cursor; fail-fast loop: the loop index
    results,     \* the results array (with holes under withConcurrency)
    runners,     \* withConcurrency: runner -> [state, index]
    inflight,    \* indexes whose worker invocation has been called and has not settled
    settled,     \* index -> value of a settled worker promise not yet consumed by its awaiter
    started,     \* history: indexes in dispatch order
    finished,    \* history: indexes in settle order
    outcome,     \* the CommandResult renderMany returned
    \* ---- index-cache: the snapshot file and the processes using it ----
    path,        \* INDEX_PATH: the inode the name refers to, 0 when the file does not exist
    inodes,      \* inode -> file content, a sequence of chunks
    mutPc,       \* the process changing the store: "idle" | "writing"
    mutFd,       \* inode opened by writeFile
    mutData,     \* the serialized payload writeFile is writing
    mutPos,      \* chunks of mutData written so far
    mutOps,      \* writeIndex / clearIndex calls made
    cleared,     \* what the last clearIndex returned: "none" | "true" | "false"
    logical,     \* what a read with no operation in progress returns: last completed operation
    rdPc,        \* the reading process: "idle" | "reading" | "done"
    rdFd,        \* inode opened by readFile
    rdBuf,       \* chunks read so far
    rdResult,    \* what readIndex returned (or that it threw)
    rdCount,     \* readIndex calls made
    visible,     \* history: the complete snapshots that existed while the current read ran
    replaced,    \* history: what the last writeIndex or clearIndex called left to be read
    \* ---- listCollections / collectionInfo ----
    cmd,         \* "list" | "info"
    cOpts,       \* CollectionsListOptions / CollectionsInfoOptions
    cPrefix,     \* collectionInfo's prefix argument
    idx,         \* what readIndex yields when called
    meta,        \* what getCollectionsMetadata yields when called
    collData,    \* what getCollectionData yields when called
    cPc,         \* position of the command: "called" | "readIndex" | "metadata" | "data" | "returned"
    cCalls,      \* history: the collaborators called, in order
    cResult,     \* the CommandResult returned
    \* ---- fuzzy resolution ----
    rQuery,      \* the query
    rOpts,       \* source, offline, autoSelect, minScore, collections, preferPrefixes
    rIdx,        \* what readIndex yields when called
    rRemote,     \* what searchIconIds yields when called
    rPc,         \* position of the resolution: "called" | "readIndex" | "search" | "returned"
    rCalls,      \* history: the collaborators called, in order
    rResult,     \* the resolution outcome
    \* ---- fetchIcon ----
    fQuery,      \* queryOrIcon
    fOpts,       \* offline, force, match, autoSelect
    fEnv,        \* what access, downloadIconSvg, mkdir and writeFile do when called
    fFile,       \* the content at opts.output
    fPc,         \* position of fetchIcon
    fCalls,      \* history: the collaborators called, in order
    fResult,     \* what fetchIcon returned
    fFileAtCall, \* history: the output path when fetchIcon was called
    \* ---- doctor ----
    dOpts,       \* offline, format
    dEnv,        \* what getCollectionsMetadata, the cache directory probe and readIndex do
    dChecks,     \* checks.api.ok, checks.cacheDir.ok, checks.index.ok
    dPc,         \* position of doctor
    dResult,     \* what doctor returned
    \* ---- scoreCandidate ----
    sQuery,      \* the query
    sLeft,       \* a candidate icon id
    sRight,      \* another candidate icon id
    sPc,         \* "called" | "scored"
    sScores,     \* the scores of the two candidates and of the query against itself
    \* ---- renderMany: manifest records and the options of each render ----
    mRecords,    \* the records of the manifest file
    mOpts,       \* the batch-level options
    mPc,         \* "called" | "rendering" | "returned"
    mItems,      \* the items loadRenderManifestItems returned
    mRendered,   \* history: the options renderIcon was called with, in order, and its outcome
    mResult,     \* what renderMany returned
    \* ---- the command line: one action of the program and the exit code ----
    aCommand,    \* the command of the command line
    aArgs,       \* the argument and options of the resolve command
    aPc,         \* "called" | "exited"
    aResult,     \* the result the action printed, or what it threw
    exitCode,    \* the exit code of the process
    \* ---- withConcurrency with a worker that may throw ----
    pN,          \* items.length
    pConcurrency,\* the concurrency argument, in halves
    pThrows,     \* the indices whose worker invocation rejects
    pPc,         \* "called" | "running" | "resolved" | "rejected"
    pCursor,     \* the shared cursor
    pResults,    \* the results array
    pRunners,    \* runner -> [state, index]
    pInflight,   \* indices whose worker promise is pending
    pSettled,    \* settled worker promises whose runner has not resumed yet
    pStarted,    \* history: indices in the order their worker was invoked
    pLate,       \* history: indices whose worker was invoked after withConcurrency settled
    \* ---- the --stdin batch modes of resolve, search and render ----
    bCommand,    \* "resolve" | "search" | "render"
    bRaw,        \* the lines of standard input as typed
    bOutcomes,   \* the result the command function returns for the k-th line processed
    bPc,         \* "called" | "looping" | "exited"
    bLines,      \* the lines (render: the parsed entries) the loop iterates over
    bPrinted,    \* history: the results printed, in order
    bExitCode,   \* the local exitCode of the action
    bProcessExit \* the exit code of the process

batchVars == <<opts, manifest, items, phase, cursor, results, runners, inflight,
               settled, started, finished, outcome>>

storeVars == <<path, inodes, mutPc, mutFd, mutData, mutPos, mutOps, cleared, logical,
               rdPc, rdFd, rdBuf, rdResult, rdCount, visible, replaced>>

collVars == <<cmd, cOpts, cPrefix, idx, meta, collData, cPc, cCalls, cResult>>

resolveVars == <<rQuery, rOpts, rIdx, rRemote, rPc, rCalls, rResult>>

fetchVars == <<fQuery, fOpts, fEnv, fFile, fPc, fCalls, fResult, fFileAtCall>>

doctorVars == <<dOpts, dEnv, dChecks, dPc, dResult>>

scoreVars == <<sQuery, sLeft, sRight, sPc, sScores>>

manifestVars == <<mRecords, mOpts, mPc, mItems, mRendered, mResult>>

cliVars == <<aCommand, aArgs, aPc, aResult, exitCode>>

poolVars ==
    <<pN, pConcurrency, pThrows, pPc, pCursor, pResults, pRunners, pInflight, pSettled, pStarted,
      pLate>>

stdinVars == <<bCommand, bRaw, bOutcomes, bPc, bLines, bPrinted, bExitCode, bProcessExit>>

vars == <<batchVars, storeVars, collVars, resolveVars, fetchVars, doctorVars, scoreVars,
          manifestVars, cliVars, poolVars, stdinVars>>

notBatch ==
    <<storeVars, collVars, resolveVars, fetchVars, doctorVars, scoreVars, manifestVars, cliVars, poolVars, stdinVars>>
notStore ==
    <<batchVars, collVars, resolveVars, fetchVars, doctorVars, scoreVars, manifestVars, cliVars, poolVars, stdinVars>>
notColl ==
    <<batchVars, storeVars, resolveVars, fetchVars, doctorVars, scoreVars, manifestVars, cliVars, poolVars, stdinVars>>
notResolve ==
    <<batchVars, storeVars, collVars, fetchVars, doctorVars, scoreVars, manifestVars, cliVars, poolVars, stdinVars>>
notFetch ==
    <<batchVars, storeVars, collVars, resolveVars, doctorVars, scoreVars, manifestVars, cliVars, poolVars, stdinVars>>
notDoctor ==
    <<batchVars, storeVars, collVars, resolveVars, fetchVars, scoreVars, manifestVars, cliVars, poolVars, stdinVars>>
notScore ==
    <<batchVars, storeVars, collVars, resolveVars, fetchVars, doctorVars, manifestVars, cliVars, poolVars, stdinVars>>
notManifest ==
    <<batchVars, storeVars, collVars, resolveVars, fetchVars, doctorVars, scoreVars, cliVars,
      poolVars, stdinVars>>
notCli ==
    <<batchVars, storeVars, collVars, resolveVars, fetchVars, doctorVars, scoreVars,
      manifestVars, poolVars, stdinVars>>
notPool ==
    <<batchVars, storeVars, collVars, resolveVars, fetchVars, doctorVars, scoreVars,
      manifestVars, cliVars, stdinVars>>
notStdin ==
    <<batchVars, storeVars, collVars, resolveVars, fetchVars, doctorVars, scoreVars,
      manifestVars, cliVars, poolVars>>

----------------------------------------------------------------------------
(* Bounds *)

MaxItems == 3          \* manifest length 0..MaxItems
MaxIcons == 1          \* icons in a snapshot 0..MaxIcons
MaxOps == 2            \* writeIndex / clearIndex calls
MaxReads == 2          \* readIndex calls
MaxLimit == 1          \* --limit / --icons-limit 0..MaxLimit

MaxScoreLen == 4        \* longest string of letters scored
MaxRecords == 2        \* records in a manifest 0..MaxRecords
MaxLines == 2          \* lines of standard input 0..MaxLines

----------------------------------------------------------------------------
(* Arrays *)

Min(a, b) == IF a <= b THEN a ELSE b
Max(a, b) == IF a >= b THEN a ELSE b

EmptyArray == [i \in {} |-> 0]
ArrLen(a) == Cardinality(DOMAIN a)
Push(a, v) == [i \in 0..ArrLen(a) |-> IF i < ArrLen(a) THEN a[i] ELSE v]

\* an empty slot of `new Array(n)`
Hole == [hole |-> TRUE]
NewArray(n) == [i \in 0..(n - 1) |-> Hole]

\* results.filter((item) => !item.ok).length; Array.prototype.filter skips holes
FailedCount(a) == Cardinality({i \in DOMAIN a : a[i] # Hole /\ ~a[i].ok})

----------------------------------------------------------------------------
(* Strings are sequences of characters *)

LowerOf(c) ==
    CASE c = "A" -> "a" [] c = "B" -> "b" [] c = "C" -> "c"
      [] c = "X" -> "x" [] c = "Y" -> "y" [] OTHER -> c

\* String.prototype.toLowerCase
ToLowerCase(s) == [i \in 1..Len(s) |-> LowerOf(s[i])]

RECURSIVE TrimStart(_)
TrimStart(s) == IF s # <<>> /\ s[1] = " " THEN TrimStart(Tail(s)) ELSE s
RECURSIVE TrimEnd(_)
TrimEnd(s) == IF s # <<>> /\ s[Len(s)] = " " THEN TrimEnd(SubSeq(s, 1, Len(s) - 1)) ELSE s
\* String.prototype.trim
Trim(s) == TrimEnd(TrimStart(s))

\* String.prototype.indexOf of one character: 0-based, -1 when missing
IndexOf(s, c) ==
    IF \E i \in 1..Len(s) : s[i] = c
    THEN (CHOOSE i \in 1..Len(s) : s[i] = c /\ \A j \in 1..(i - 1) : s[j] # c) - 1
    ELSE -1

\* slice(from, to) with 0 <= from <= to
Slice(s, from, to) == SubSeq(s, from + 1, Min(to, Len(s)))

\* order of localeCompare on the characters used here
Rank(c) ==
    CASE c = "a" -> 1 [] c = "b" -> 2 [] c = "c" -> 3 [] c = "x" -> 4 [] c = "y" -> 5 [] OTHER -> 0

RECURSIVE LocaleLess(_, _)
LocaleLess(s, t) ==
    IF t = <<>> THEN FALSE
    ELSE IF s = <<>> THEN TRUE
    ELSE IF Rank(s[1]) # Rank(t[1]) THEN Rank(s[1]) < Rank(t[1])
    ELSE LocaleLess(Tail(s), Tail(t))

\* Array.prototype.sort of distinct strings
SortStrings(set) ==
    CHOOSE seq \in [1..Cardinality(set) -> set] :
        \A i, j \in 1..Cardinality(set) : i < j => LocaleLess(seq[i], seq[j])

----------------------------------------------------------------------------
(* output.ts: the result envelope; a message is the sequence of its parts *)

ok(data) == [ok |-> TRUE, data |-> data]
failWith(code, message, details) == [ok |-> FALSE, code |-> code, message |-> message, details |-> details]
NoDetails == [none |-> TRUE]

----------------------------------------------------------------------------
(* index-cache: writeIndex, clearIndex, readIndex over the snapshot file *)

\* icon ids are strings: sequences of characters
Icons == {<<"a", ":", "x">>, <<"b", ":", "y">>}
IconLists == UNION {[1..n -> Icons] : n \in 0..MaxIcons}

\* The file content is a sequence of chunks. JSON.stringify(payload) + "\n" is
\* the header (updatedAt, total), one chunk per icon and the closing chunk.
Header(total) == [kind |-> "header", total |-> total, icon |-> <<>>]
IconChunk(icon) == [kind |-> "icon", total |-> 0, icon |-> icon]
Close == [kind |-> "close", total |-> 0, icon |-> <<>>]

SerializeWithoutTotal(icons) ==
    <<Header(0)>> \o [i \in 1..Len(icons) |-> IconChunk(icons[i])] \o <<Close>>
\* `${JSON.stringify({ updatedAt, total: icons.length, icons })}\n`
Serialize(icons) ==
    <<Header(Len(icons))>> \o [i \in 1..Len(icons) |-> IconChunk(icons[i])] \o <<Close>>

\* what readIndex yields
Absent == [kind |-> "absent", total |-> 0, icons |-> <<>>]
Threw == [kind |-> "threw", total |-> 0, icons |-> <<>>]
Snapshot(total, icons) == [kind |-> "snapshot", total |-> total, icons |-> icons]
\* the file holds the JSON document null: JSON.parse(content) returns null
NullDocument == [kind |-> "null", total |-> 0, icons |-> <<>>]
\* readIndex, part_004 lines 34-44: null on ENOENT, else whatever JSON.parse returns
ReturnsNull(index) == index = Absent \/ index = NullDocument

\* JSON.parse(content): a SyntaxError unless the text is one complete document
WellFormed(content) ==
    /\ Len(content) >= 2
    /\ content[1].kind = "header"
    /\ content[Len(content)].kind = "close"
    /\ \A i \in 2..(Len(content) - 1) : content[i].kind = "icon"

JSONparse(content) ==
    IF WellFormed(content)
    THEN Snapshot(content[1].total, [i \in 1..(Len(content) - 2) |-> content[i + 1].icon])
    ELSE Threw

IdleStore ==
    /\ path = 0
    /\ inodes = <<>>
    /\ mutPc = "idle"
    /\ mutFd = 0
    /\ mutData = <<>>
    /\ mutPos = 0
    /\ mutOps = 0
    /\ cleared = "none"
    /\ logical = Absent
    /\ rdPc = "idle"
    /\ rdFd = 0
    /\ rdBuf = <<>>
    /\ rdResult = Absent
    /\ rdCount = 0
    /\ visible = {}
    /\ replaced = Absent

\* the snapshots a read in progress may return: those complete at some time during it
Seen(snapshot) == IF rdPc = "reading" THEN visible \cup {snapshot} ELSE visible

\* writeIndex: mkdir, then writeFile opens INDEX_PATH with flag 'w', which
\* creates the file or truncates the existing one
WriteOpen(icons) ==
    /\ mutPc = "idle" /\ mutOps < MaxOps
    /\ IF path = 0
       THEN /\ inodes' = Append(inodes, <<>>)
            /\ path' = Len(inodes) + 1
       ELSE /\ inodes' = [inodes EXCEPT ![path] = <<>>]
            /\ path' = path
    /\ mutFd' = path'
    /\ mutData' = Serialize(icons)
    /\ mutPos' = 0
    /\ mutPc' = "writing"
    /\ mutOps' = mutOps + 1
    /\ visible' = Seen(Snapshot(Len(icons), icons))
    /\ replaced' = Snapshot(Len(icons), icons)
    /\ UNCHANGED <<cleared, logical, rdPc, rdFd, rdBuf, rdResult, rdCount>>
    /\ UNCHANGED notStore

\* writeFile writes the data to the open file, one chunk per write call
WriteChunk ==
    /\ mutPc = "writing" /\ mutPos < Len(mutData)
    /\ inodes' = [inodes EXCEPT ![mutFd] = Append(SubSeq(@, 1, mutPos), mutData[mutPos + 1])]
    /\ mutPos' = mutPos + 1
    /\ UNCHANGED <<path, mutPc, mutFd, mutData, mutOps, cleared, logical,
                   rdPc, rdFd, rdBuf, rdResult, rdCount, visible>>
    /\ UNCHANGED replaced
    /\ UNCHANGED notStore

\* writeFile closes the file and writeIndex resolves
WriteClose ==
    /\ mutPc = "writing" /\ mutPos = Len(mutData)
    /\ mutPc' = "idle"
    /\ logical' = JSONparse(mutData)
    /\ UNCHANGED <<path, inodes, mutFd, mutData, mutPos, mutOps, cleared,
                   rdPc, rdFd, rdBuf, rdResult, rdCount, visible>>
    /\ UNCHANGED replaced
    /\ UNCHANGED notStore

\* clearIndex: rm(INDEX_PATH, { force: false }); ENOENT is answered with false
ClearIndex ==
    /\ mutPc = "idle" /\ mutOps < MaxOps
    /\ cleared' = IF path # 0 THEN "true" ELSE "false"
    /\ path' = 0
    /\ logical' = Absent
    /\ mutOps' = mutOps + 1
    /\ visible' = Seen(Absent)
    /\ replaced' = Absent
    /\ UNCHANGED <<inodes, mutPc, mutFd, mutData, mutPos, rdPc, rdFd, rdBuf, rdResult, rdCount>>
    /\ UNCHANGED notStore

\* the snapshots complete at the moment a read starts
Current == {logical} \cup (IF mutPc = "writing" THEN {JSONparse(mutData)} ELSE {})

\* readIndex: readFile fails with ENOENT, readIndex returns null
ReadMissing ==
    /\ rdPc \in {"idle", "done"} /\ rdCount < MaxReads
    /\ path = 0
    /\ rdPc' = "done"
    /\ rdResult' = Absent
    /\ rdCount' = rdCount + 1
    /\ visible' = Current
    /\ UNCHANGED <<path, inodes, mutPc, mutFd, mutData, mutPos, mutOps, cleared, logical,
                   rdFd, rdBuf>>
    /\ UNCHANGED replaced
    /\ UNCHANGED notStore

\* readIndex: readFile opens the file
ReadOpen ==
    /\ rdPc \in {"idle", "done"} /\ rdCount < MaxReads
    /\ path # 0
    /\ rdPc' = "reading"
    /\ rdFd' = path
    /\ rdBuf' = <<>>
    /\ rdCount' = rdCount + 1
    /\ visible' = Current
    /\ UNCHANGED <<path, inodes, mutPc, mutFd, mutData, mutPos, mutOps, cleared, logical,
                   rdResult>>
    /\ UNCHANGED replaced
    /\ UNCHANGED notStore

\* readFile reads the next chunk of the open file
ReadChunk ==
    /\ rdPc = "reading" /\ Len(rdBuf) < Len(inodes[rdFd])
    /\ rdBuf' = Append(rdBuf, inodes[rdFd][Len(rdBuf) + 1])
    /\ UNCHANGED <<path, inodes, mutPc, mutFd, mutData, mutPos, mutOps, cleared, logical,
                   rdPc, rdFd, rdResult, rdCount, visible>>
    /\ UNCHANGED replaced
    /\ UNCHANGED notStore

\* readFile reaches the end of the file; readIndex returns JSON.parse(content)
\* or rethrows its SyntaxError
ReadEnd ==
    /\ rdPc = "reading" /\ Len(rdBuf) >= Len(inodes[rdFd])
    /\ rdPc' = "done"
    /\ rdResult' = JSONparse(rdBuf)
    /\ UNCHANGED <<path, inodes, mutPc, mutFd, mutData, mutPos, mutOps, cleared, logical,
                   rdFd, rdBuf, rdCount, visible>>
    /\ UNCHANGED replaced
    /\ UNCHANGED notStore

NextStore ==
    \/ \E icons \in IconLists : WriteOpen(icons)
    \/ WriteChunk
    \/ WriteClose
    \/ ClearIndex
    \/ ReadMissing
    \/ ReadOpen
    \/ ReadChunk
    \/ ReadEnd

\* the store used by one caller at a time: an operation begins only when the
\* previous one has completed
NextStoreSequential ==
    \/ rdPc # "reading" /\ \E icons \in IconLists : WriteOpen(icons)
    \/ rdPc # "reading" /\ WriteChunk
    \/ rdPc # "reading" /\ WriteClose
    \/ rdPc # "reading" /\ ClearIndex
    \/ mutPc = "idle" /\ ReadMissing
    \/ mutPc = "idle" /\ ReadOpen
    \/ mutPc = "idle" /\ ReadChunk
    \/ mutPc = "idle" /\ ReadEnd

----------------------------------------------------------------------------
(* commands.ts: resolveIcon / renderIcon as they stand in the source *)

QueryKinds == {"id", "word"}         \* "id" contains ':', "word" does not; "blank" trims to ""

resolveIcon(queryOrIcon, match, autoSelect) ==
    IF queryOrIcon = "blank" THEN failWith("INVALID_USAGE", <<"query-or-icon is required">>, NoDetails)
    ELSE IF queryOrIcon # "id" /\ match = "exact"
         THEN failWith("NOT_FOUND", <<"Exact icon id not found">>, NoDetails)
    ELSE IF queryOrIcon # "id" /\ match = "fuzzy" /\ autoSelect = "undefined"
         THEN failWith("AMBIGUOUS", <<"Fuzzy query requires --auto-select top1">>, NoDetails)
    ELSE ok([icon |-> IF queryOrIcon = "id" THEN "inferred" ELSE "mdi:home"])

renderIcon(queryOrIcon, match, autoSelect) ==
    LET resolved == resolveIcon(queryOrIcon, match, autoSelect)
    IN  IF ~resolved.ok THEN resolved
        ELSE ok([icon |-> resolved.data.icon, status |-> "planned"])

----------------------------------------------------------------------------
(* extra-commands.ts: renderMany *)

\* renderOne: the worker of the batch
renderOne(item, index) ==
    LET result == renderIcon(item.queryOrIcon, opts.match, opts.autoSelect)
    IN  IF result.ok
        THEN [index |-> index, queryOrIcon |-> item.queryOrIcon, ok |-> TRUE, code |-> "none"]
        ELSE [index |-> index, queryOrIcon |-> item.queryOrIcon, ok |-> FALSE, code |-> result.code]

\* Math.floor of a number given in halves
Floor(halves) == halves \div 2

LimitOffByOne(concurrency) == Max(1, Floor(concurrency)) + 1
\* const limit = Math.max(1, Math.floor(concurrency))
Limit(concurrency) == Max(1, Floor(concurrency))

\* Array.from({ length: Math.min(limit, items.length) }, ...)
RunnerCount(concurrency, n) == Min(Limit(concurrency), n)

StoreResultInOrder(res, index, value) ==
    LET free == {i \in DOMAIN res : res[i] = Hole}
        first == CHOOSE i \in free : \A j \in free : i <= j
    IN  [res EXCEPT ![first] = value]
\* results[index] = await worker(items[index], index)
StoreResult(res, index, value) == [res EXCEPT ![index] = value]

SequentialOnlyWhenSerial(o) == o.failFast /\ Floor(o.concurrency) <= 1
\* if (opts.failFast) { sequential loop } else { withConcurrency }
UseSequential(o) == o.failFast

NeverBreak(result) == FALSE
\* if (!result.ok) break
BreakOnFailure(result) == ~result.ok

StopAfterFailure(value, cur, n) == cur < n /\ value.ok
\* while (cursor < items.length)
RunnerContinues(value, cur, n) == cur < n

\* the report and the envelope built at lines 131-150
Report(res, n) ==
    LET failed == FailedCount(res)
    IN  [total |-> n,
         attempted |-> ArrLen(res),
         succeeded |-> ArrLen(res) - failed,
         failed |-> failed,
         skipped |-> n - ArrLen(res),
         items |-> res]

EnvelopeOfFirstFailure(res, n) ==
    LET report == Report(res, n)
        bad == {i \in DOMAIN res : ~res[i].ok}
    IN  IF bad # {}
        THEN failWith(res[CHOOSE i \in bad : \A j \in bad : i <= j].code,
                      <<"One or more render operations failed.">>, report)
        ELSE IF ArrLen(res) # n
        THEN failWith("RENDER_ERROR", <<"One or more render operations failed.">>, report)
        ELSE ok(report)
\* lines 146-150: RENDER_ERROR with the report, or ok(report)
Envelope(res, n) ==
    LET report == Report(res, n)
    IN  IF report.failed > 0 \/ ArrLen(res) # n
        THEN failWith("RENDER_ERROR", <<"One or more render operations failed.">>, report)
        ELSE ok(report)

NoOutcome == [pending |-> TRUE]
N == ArrLen(items)

ConcurrencyValues == (-2)..(2 * MaxItems + 3)

StartBatch ==
    /\ manifest \in {"ok", "invalid", "unreadable"}
    /\ \E n \in 0..MaxItems :
          /\ manifest # "ok" => n = 0
          /\ items \in [0..(n - 1) -> [queryOrIcon : QueryKinds]]
    /\ opts \in [failFast : BOOLEAN, concurrency : ConcurrencyValues,
                 match : {"exact", "fuzzy"}, autoSelect : {"undefined", "top1"}]
    /\ phase = "called"
    /\ cursor = 0
    /\ results = EmptyArray
    /\ runners = EmptyArray
    /\ inflight = {}
    /\ settled = EmptyArray
    /\ started = <<>>
    /\ finished = <<>>
    /\ outcome = NoOutcome

\* loadRenderManifestItems throws RenderManifestError
ManifestInvalid ==
    /\ phase = "called" /\ manifest = "invalid"
    /\ phase' = "returned"
    /\ outcome' = failWith("INVALID_USAGE", <<"error.message">>, NoDetails)
    /\ UNCHANGED <<opts, manifest, items, cursor, results, runners, inflight,
                   settled, started, finished>>
    /\ UNCHANGED notBatch

\* loadRenderManifestItems throws another error (readFile)
ManifestUnreadable ==
    /\ phase = "called" /\ manifest = "unreadable"
    /\ phase' = "returned"
    /\ outcome' = failWith("FS_ERROR", <<"Failed to process render manifest">>, NoDetails)
    /\ UNCHANGED <<opts, manifest, items, cursor, results, runners, inflight,
                   settled, started, finished>>
    /\ UNCHANGED notBatch

\* items.length === 0
ManifestEmpty ==
    /\ phase = "called" /\ manifest = "ok" /\ N = 0
    /\ phase' = "returned"
    /\ outcome' = failWith("INVALID_USAGE", <<"Manifest contains no items.">>, NoDetails)
    /\ UNCHANGED <<opts, manifest, items, cursor, results, runners, inflight,
                   settled, started, finished>>
    /\ UNCHANGED notBatch

\* fail-fast: results = []; the loop's first iteration calls renderOne(items[0], 0)
StartSequential ==
    /\ phase = "called" /\ manifest = "ok" /\ N > 0
    /\ UseSequential(opts)
    /\ phase' = "sequential"
    /\ results' = EmptyArray
    /\ cursor' = 0
    /\ inflight' = {0}
    /\ started' = <<0>>
    /\ UNCHANGED <<opts, manifest, items, runners, settled, finished, outcome>>
    /\ UNCHANGED notBatch

\* withConcurrency(items, opts.concurrency, renderOne): Array.from runs every
\* runner synchronously up to its first await, so runner r takes index r
StartConcurrent ==
    /\ phase = "called" /\ manifest = "ok" /\ N > 0
    /\ ~UseSequential(opts)
    /\ LET k == RunnerCount(opts.concurrency, N)
       IN  /\ phase' = "concurrent"
           /\ results' = NewArray(N)
           /\ runners' = [r \in 0..(k - 1) |-> [state |-> "awaiting", index |-> r]]
           /\ cursor' = k
           /\ inflight' = 0..(k - 1)
           /\ started' = [j \in 1..k |-> j - 1]
    /\ UNCHANGED <<opts, manifest, items, settled, finished, outcome>>
    /\ UNCHANGED notBatch

\* the promise of one worker invocation settles
WorkerSettle(i) ==
    /\ i \in inflight
    /\ inflight' = inflight \ {i}
    /\ settled' = [j \in DOMAIN settled \cup {i} |->
                     IF j = i THEN renderOne(items[i], i) ELSE settled[j]]
    /\ finished' = Append(finished, i)
    /\ UNCHANGED <<opts, manifest, items, phase, cursor, results, runners, started, outcome>>
    /\ UNCHANGED notBatch

Consume(i) == [j \in DOMAIN settled \ {i} |-> settled[j]]

\* a runner of withConcurrency resumes after its await: it stores the result,
\* then takes the next index from the shared cursor or ends
RunnerResume(r) ==
    /\ phase = "concurrent"
    /\ r \in DOMAIN runners
    /\ runners[r].state = "awaiting"
    /\ runners[r].index \in DOMAIN settled
    /\ LET index == runners[r].index
           value == settled[index]
       IN  /\ results' = StoreResult(results, index, value)
           /\ settled' = Consume(index)
           /\ IF RunnerContinues(value, cursor, N)
              THEN /\ runners' = [runners EXCEPT ![r] = [state |-> "awaiting", index |-> cursor]]
                   /\ cursor' = cursor + 1
                   /\ inflight' = inflight \cup {cursor}
                   /\ started' = Append(started, cursor)
              ELSE /\ runners' = [runners EXCEPT ![r] = [state |-> "done", index |-> index]]
                   /\ UNCHANGED <<cursor, inflight, started>>
    /\ UNCHANGED <<opts, manifest, items, phase, finished, outcome>>
    /\ UNCHANGED notBatch

\* await Promise.all(runners) resolves; renderMany builds the report and returns
ConcurrentReturn ==
    /\ phase = "concurrent"
    /\ \A r \in DOMAIN runners : runners[r].state = "done"
    /\ phase' = "returned"
    /\ outcome' = Envelope(results, N)
    /\ UNCHANGED <<opts, manifest, items, cursor, results, runners, inflight,
                   settled, started, finished>>
    /\ UNCHANGED notBatch

\* the fail-fast loop resumes after `await renderOne`: push, break or next index
LoopResume ==
    /\ phase = "sequential"
    /\ cursor \in DOMAIN settled
    /\ LET value == settled[cursor]
           pushed == Push(results, value)
       IN  /\ results' = pushed
           /\ settled' = Consume(cursor)
           /\ IF ~BreakOnFailure(value) /\ cursor + 1 < N
              THEN /\ cursor' = cursor + 1
                   /\ inflight' = inflight \cup {cursor + 1}
                   /\ started' = Append(started, cursor + 1)
                   /\ UNCHANGED <<phase, outcome>>
              ELSE /\ phase' = "returned"
                   /\ outcome' = Envelope(pushed, N)
                   /\ UNCHANGED <<cursor, inflight, started>>
    /\ UNCHANGED <<opts, manifest, items, runners, finished>>
    /\ UNCHANGED notBatch

NextBatch ==
    \/ ManifestInvalid
    \/ ManifestUnreadable
    \/ ManifestEmpty
    \/ StartSequential
    \/ StartConcurrent
    \/ \E i \in 0..(MaxItems - 1) : WorkerSettle(i)
    \/ \E r \in 0..(MaxItems - 1) : RunnerResume(r)
    \/ ConcurrentReturn
    \/ LoopResume

IdleBatch ==
    /\ manifest = "ok"
    /\ items = EmptyArray
    /\ opts = [failFast |-> FALSE, concurrency |-> 2, match |-> "exact", autoSelect |-> "undefined"]
    /\ phase = "idle"
    /\ cursor = 0
    /\ results = EmptyArray
    /\ runners = EmptyArray
    /\ inflight = {}
    /\ settled = EmptyArray
    /\ started = <<>>
    /\ finished = <<>>
    /\ outcome = NoOutcome


----------------------------------------------------------------------------
(* command-utils.ts, extra-commands.ts: listCollections and collectionInfo *)

parsePrefix(iconId) ==
    LET separator == IndexOf(iconId, ":")
    IN  IF separator <= 0 THEN <<>> ELSE ToLowerCase(Slice(iconId, 0, separator))

\* buildPrefixCounts: prefix -> number of icons, icons without prefix skipped
buildPrefixCounts(icons) ==
    LET prefixes == {parsePrefix(icons[i]) : i \in 1..Len(icons)} \ {<<>>}
    IN  [p \in prefixes |-> Cardinality({i \in 1..Len(icons) : parsePrefix(icons[i]) = p})]

localIndexMissingError(reason) ==
    failWith("NOT_FOUND", <<reason, "Run icns index sync to create local cache.">>, NoDetails)

\* what a call of the remote client yields: fetchJson returns the document,
\* throws HttpError for a non-2xx status, or fails otherwise (fetch rejects on
\* abort or connection failure, response.json() on an invalid body)
RemoteOk(value) == [kind |-> "ok", status |-> 200, value |-> value]
HttpError(status) == [kind |-> "http", status |-> status, value |-> {}]
OtherError == [kind |-> "error", status |-> 0, value |-> {}]

UseIndexOnlyIgnoringOffline(o) == o.source = "index"
\* const useIndexOnly = opts.source === "index" || opts.offline
useIndexOnly(o) == o.source = "index" \/ o.offline

ReadsIndexOnlyWhenRequired(o) == useIndexOnly(o)
\* if (useIndexOnly || opts.source === "auto")
ReadsIndex(o) == useIndexOnly(o) \/ o.source = "auto"

\* .slice(0, limit), limit <= 0 meaning no limit for listCollections
SliceLimit(seq, limit) == SubSeq(seq, 1, Min(limit, Len(seq)))
ListLimit(limit) == IF limit <= 0 THEN MaxLimit + MaxIcons + 3 ELSE limit

\* listCollections, lines 170-187: the answer from the local index
ListFromIndex(index, o) ==
    LET counts == buildPrefixCounts(index.icons)
        order == SortStrings(DOMAIN counts)
        rows == SliceLimit([i \in 1..Len(order) |-> [prefix |-> order[i], total |-> counts[order[i]]]],
                           ListLimit(o.limit))
    IN  IF o.format = "plain"
        THEN ok([source |-> "index", items |-> [i \in 1..Len(rows) |-> <<rows[i].prefix, rows[i].total>>]])
        ELSE ok([source |-> "index", total |-> Len(rows), items |-> rows])

\* listCollections, lines 195-218: the answer from the remote metadata
ListFromApi(metadata, o) ==
    LET order == SortStrings({e.prefix : e \in metadata})
        entry(p) == CHOOSE e \in metadata : e.prefix = p
        rows == SliceLimit([i \in 1..Len(order) |-> [prefix |-> order[i], total |-> entry(order[i]).total]],
                           ListLimit(o.limit))
    IN  IF o.format = "plain"
        THEN ok([source |-> "api", items |-> [i \in 1..Len(rows) |-> <<rows[i].prefix, rows[i].total>>]])
        ELSE ok([source |-> "api", total |-> Len(rows), items |-> rows])

\* the catch blocks of listCollections (219-224) and collectionInfo (321-329)
Caught(command, error) ==
    IF error.kind = "http"
    THEN IF command = "info" /\ error.status = 404
         THEN failWith("NOT_FOUND", <<"Collection not found">>, NoDetails)
         ELSE failWith("API_ERROR",
                       IF command = "list" THEN <<"Failed to list collections">>
                                           ELSE <<"Failed to load collection info">>,
                       error)
    ELSE failWith("FS_ERROR",
                  IF command = "list" THEN <<"Failed to list collections from local index">>
                                      ELSE <<"Failed to inspect collection info">>,
                  error)

normalizedPrefix == ToLowerCase(Trim(cPrefix))

\* collectionInfo, line 240
IconsOfPrefix(index) ==
    LET keep == {i \in 1..Len(index.icons) : parsePrefix(index.icons[i]) = normalizedPrefix}
        pos(k) == CHOOSE i \in keep : Cardinality({j \in keep : j < i}) = k - 1
    IN  [k \in 1..Cardinality(keep) |-> index.icons[pos(k)]]

\* collectionInfo, lines 246-264
InfoFromIndex(icons, o) ==
    LET sampleIcons == SliceLimit(icons, Max(0, o.iconsLimit))
    IN  IF o.format = "plain"
        THEN ok([items |-> <<<<"prefix", normalizedPrefix>>, <<"source", "index">>,
                            <<"total", Len(icons)>>>> \o sampleIcons])
        ELSE ok([source |-> "index", prefix |-> normalizedPrefix, total |-> Len(icons),
                 sampleIcons |-> sampleIcons])

\* collectionInfo, lines 279-320
InfoFromApi(entry, names, o) ==
    LET iconNames == {normalizedPrefix \o <<":">> \o n : n \in names}
        sampleIcons == SliceLimit(SortStrings(iconNames), Max(0, o.iconsLimit))
    IN  IF o.format = "plain"
        THEN ok([items |-> <<<<"prefix", normalizedPrefix>>, <<"source", "api">>,
                            <<"name", normalizedPrefix>>, <<"total", entry.total>>>> \o sampleIcons])
        ELSE ok([source |-> "api", prefix |-> normalizedPrefix, total |-> entry.total,
                 sampleIcons |-> sampleIcons])

A_X == <<"a", ":", "x">>
UA_Y == <<"A", ":", "y">>
B_X == <<"b", ":", "x">>
NoColon == <<"x">>

IndexStates ==
    {Absent, Threw, NullDocument, Snapshot(0, <<>>), Snapshot(1, <<A_X>>),
     Snapshot(3, <<UA_Y, B_X, A_X>>), Snapshot(1, <<NoColon>>)}

MetaStates ==
    {RemoteOk({}), RemoteOk({[prefix |-> <<"a">>, total |-> 2]}),
     RemoteOk({[prefix |-> <<"c">>, total |-> 1], [prefix |-> <<"a">>, total |-> 2]}),
     HttpError(404), HttpError(500), OtherError}

DataStates ==
    {RemoteOk({<<"y">>, <<"x">>}), RemoteOk({}), HttpError(404), HttpError(500), OtherError}

PrefixArgs == {<<"a">>, <<" ", "A", " ">>, <<"c">>, <<" ">>}

SourceModes == {"auto", "index", "api"}

IdleColl ==
    /\ cmd = "list"
    /\ cOpts = [source |-> "auto", offline |-> FALSE, limit |-> 0, format |-> "json"]
    /\ cPrefix = <<>>
    /\ idx = Absent
    /\ meta = OtherError
    /\ collData = OtherError
    /\ cPc = "idle"
    /\ cCalls = <<>>
    /\ cResult = NoOutcome

StartColl ==
    /\ \/ /\ cmd = "list"
          /\ cOpts \in [source : SourceModes, offline : BOOLEAN, limit : 0..MaxLimit,
                        format : {"json", "plain"}]
          /\ cPrefix = <<>>
          /\ collData = OtherError
       \/ /\ cmd = "info"
          /\ cOpts \in [source : SourceModes, offline : BOOLEAN, iconsLimit : 0..MaxLimit,
                        format : {"json", "plain"}]
          /\ cPrefix \in PrefixArgs
          /\ collData \in DataStates
    /\ idx \in IndexStates
    /\ meta \in MetaStates
    /\ cPc = "called"
    /\ cCalls = <<>>
    /\ cResult = NoOutcome

Return(result) ==
    /\ cPc' = "returned"
    /\ cResult' = result
    /\ UNCHANGED cCalls

Call(name) ==
    /\ cPc' = name
    /\ cCalls' = Append(cCalls, name)
    /\ UNCHANGED cResult

CollFrame == UNCHANGED <<cmd, cOpts, cPrefix, idx, meta, collData>> /\ UNCHANGED notColl

\* listCollections up to its first await
ListStart ==
    /\ cmd = "list" /\ cPc = "called"
    /\ IF ReadsIndex(cOpts) THEN Call("readIndex") ELSE Call("metadata")
    /\ CollFrame

\* listCollections after `await readIndex()`
ListIndexRead ==
    /\ cmd = "list" /\ cPc = "readIndex"
    /\ IF idx = Threw THEN Return(Caught("list", OtherError))
       ELSE IF ~ReturnsNull(idx) THEN Return(ListFromIndex(idx, cOpts))
       ELSE IF useIndexOnly(cOpts)
            THEN Return(localIndexMissingError("Local index is required for this request"))
       ELSE Call("metadata")
    /\ CollFrame

\* listCollections after `await getCollectionsMetadata()`
ListFetched ==
    /\ cmd = "list" /\ cPc = "metadata"
    /\ IF meta.kind = "ok" THEN Return(ListFromApi(meta.value, cOpts))
       ELSE Return(Caught("list", meta))
    /\ CollFrame

\* collectionInfo up to its first await
InfoStart ==
    /\ cmd = "info" /\ cPc = "called"
    /\ IF normalizedPrefix = <<>>
       THEN Return(failWith("INVALID_USAGE", <<"collection prefix is required">>, NoDetails))
       ELSE IF ReadsIndex(cOpts) THEN Call("readIndex") ELSE Call("metadata")
    /\ CollFrame

\* collectionInfo after `await readIndex()`
InfoIndexRead ==
    /\ cmd = "info" /\ cPc = "readIndex"
    /\ IF idx = Threw THEN Return(Caught("info", OtherError))
       ELSE IF ~ReturnsNull(idx) /\ Len(IconsOfPrefix(idx)) = 0 /\ useIndexOnly(cOpts)
            THEN Return(failWith("NOT_FOUND", <<"Collection not found in local index">>, NoDetails))
       ELSE IF ~ReturnsNull(idx) /\ Len(IconsOfPrefix(idx)) > 0
            THEN Return(InfoFromIndex(IconsOfPrefix(idx), cOpts))
       ELSE IF useIndexOnly(cOpts)
            THEN Return(localIndexMissingError("Local index is required for this request"))
       ELSE Call("metadata")
    /\ CollFrame

\* collectionInfo after `await getCollectionsMetadata()`
InfoMetaFetched ==
    /\ cmd = "info" /\ cPc = "metadata"
    /\ IF meta.kind # "ok" THEN Return(Caught("info", meta))
       ELSE IF ~\E e \in meta.value : e.prefix = normalizedPrefix
            THEN Return(failWith("NOT_FOUND", <<"Collection not found">>, NoDetails))
       ELSE Call("data")
    /\ CollFrame

\* collectionInfo after `await getCollectionData(normalizedPrefix)`
InfoDataFetched ==
    /\ cmd = "info" /\ cPc = "data"
    /\ IF collData.kind # "ok" THEN Return(Caught("info", collData))
       ELSE Return(InfoFromApi(CHOOSE e \in meta.value : e.prefix = normalizedPrefix,
                               collData.value, cOpts))
    /\ CollFrame

NextColl ==
    \/ ListStart
    \/ ListIndexRead
    \/ ListFetched
    \/ InfoStart
    \/ InfoIndexRead
    \/ InfoMetaFetched
    \/ InfoDataFetched

----------------------------------------------------------------------------
(* fuzzy.ts: the scorer. A score is the ratio num / den. *)

Ratio(num, den) == [num |-> num, den |-> den]
Geq(a, b) == a.num * b.den >= b.num * a.den
Same(a, b) == a.num * b.den = b.num * a.den

IsAlnum(c) == c \in {"a", "b", "c", "e", "g", "i", "m", "n", "o", "t", "x", "y"}

\* value.toLowerCase().replace(/[^a-z0-9]+/g, "")
normalize(value) == SelectSeq(ToLowerCase(value), IsAlnum)

bigrams(value) ==
    IF Len(value) < 2
    THEN IF Len(value) = 1 THEN {value} ELSE {}
    ELSE {SubSeq(value, i, i + 1) : i \in 1..(Len(value) - 1)}

jaccard(left, right) ==
    IF Cardinality(left \cup right) = 0
    THEN Ratio(0, 1)
    ELSE Ratio(Cardinality(left \cap right), Cardinality(left \cup right))

\* String.prototype.startsWith / includes
StartsWith(s, q) == Len(q) <= Len(s) /\ SubSeq(s, 1, Len(q)) = q
Includes(s, q) == \E i \in 0..(Len(s) - Len(q)) : SubSeq(s, i + 1, i + Len(q)) = q

\* iconId.includes(":") ? iconId.split(":", 2)[1] : iconId
NamePart(iconId) ==
    LET first == IndexOf(iconId, ":")
        rest == SubSeq(iconId, first + 2, Len(iconId))
        second == IndexOf(rest, ":")
    IN  IF first = -1 THEN iconId
        ELSE IF second = -1 THEN rest
        ELSE Slice(rest, 0, second)

ScoreWithoutEmptyGuard(query, iconId) ==
    LET normalizedQuery == normalize(query)
        normalizedId == normalize(iconId)
        normalizedName == normalize(NamePart(iconId))
    IN  IF normalizedId = normalizedQuery \/ normalizedName = normalizedQuery
        THEN Ratio(1, 1)
        ELSE jaccard(bigrams(normalizedQuery), bigrams(normalizedName))

scoreCandidate(query, iconId) ==
    LET normalizedQuery == normalize(query)
        normalizedId == normalize(iconId)
        normalizedName == normalize(NamePart(iconId))
    IN  IF Len(normalizedQuery) = 0 THEN Ratio(0, 1)
        ELSE IF normalizedId = normalizedQuery \/ normalizedName = normalizedQuery
             THEN Ratio(1, 1)
        ELSE IF StartsWith(normalizedId, normalizedQuery) \/ StartsWith(normalizedName, normalizedQuery)
             THEN Ratio(92, 100)
        ELSE IF Includes(normalizedId, normalizedQuery) \/ Includes(normalizedName, normalizedQuery)
             THEN Ratio(82, 100)
        ELSE jaccard(bigrams(normalizedQuery), bigrams(normalizedName))

----------------------------------------------------------------------------
(* The resolution engine in fuzzy match mode and its source selector. The      *)
(* resolveIcon that implements them is not among the source files (only its    *)
(* callers, its option types and the scorer are): modelled from the            *)
(* specification, sections 4.2 and 4.3.                                        *)

\* order of characters in string comparison (UTF-16 code units)
CodeUnit(c) ==
    CASE c = " " -> 32 [] c = "-" -> 45 [] c = ":" -> 58 [] c = "A" -> 65 [] c = "B" -> 66
      [] c = "a" -> 97 [] c = "b" -> 98 [] c = "c" -> 99 [] c = "e" -> 101 [] c = "g" -> 103
      [] c = "i" -> 105 [] c = "m" -> 109 [] c = "n" -> 110 [] c = "o" -> 111 [] c = "t" -> 116
      [] c = "x" -> 120 [] c = "y" -> 121 [] OTHER -> 0

RECURSIVE StringLess(_, _)
StringLess(s, t) ==
    IF t = <<>> THEN FALSE
    ELSE IF s = <<>> THEN TRUE
    ELSE IF CodeUnit(s[1]) # CodeUnit(t[1]) THEN CodeUnit(s[1]) < CodeUnit(t[1])
    ELSE StringLess(Tail(s), Tail(t))

\* the collection allow-set, matched on the prefix without regard to case;
\* the empty set stands for no allow-set
FilterCollections(ids, collections) ==
    IF collections = {} THEN ids
    ELSE {id \in ids : parsePrefix(id) \in {ToLowerCase(c) : c \in collections}}

\* preferred-prefix boost: +0.03 capped at 1.0, only for scores below 1.0
Boost(score, preferred) ==
    IF preferred /\ ~Geq(score, Ratio(1, 1))
    THEN LET raised == Ratio(100 * score.num + 3 * score.den, 100 * score.den)
         IN  IF Geq(raised, Ratio(1, 1)) THEN Ratio(1, 1) ELSE raised
    ELSE score

Candidate(query, id, o) ==
    LET preferred == parsePrefix(id) \in {ToLowerCase(c) : c \in o.preferPrefixes}
    IN  [id |-> id, score |-> Boost(scoreCandidate(query, id), preferred), preferred |-> preferred]

\* descending by score, then preferred first, then by identifier
RanksBefore(a, b) ==
    \/ Geq(a.score, b.score) /\ ~Same(a.score, b.score)
    \/ Same(a.score, b.score) /\ a.preferred /\ ~b.preferred
    \/ Same(a.score, b.score) /\ a.preferred = b.preferred /\ StringLess(a.id, b.id)

\* rank every candidate, keep those at or above the minimum score, sort
RankCandidates(query, ids, o) ==
    LET kept == {c \in {Candidate(query, id, o) : id \in FilterCollections(ids, o.collections)} :
                    Geq(c.score, o.minScore)}
    IN  CHOOSE seq \in [1..Cardinality(kept) -> kept] :
            \A i, j \in 1..Cardinality(kept) : i < j => RanksBefore(seq[i], seq[j])

NotFound == [tag |-> "NotFound", candidates |-> <<>>, source |-> "none"]
SourceUnavailable == [tag |-> "SourceUnavailable", candidates |-> <<>>, source |-> "none"]
TransportError == [tag |-> "TransportError", candidates |-> <<>>, source |-> "none"]
FilesystemError == [tag |-> "FilesystemError", candidates |-> <<>>, source |-> "none"]
UsageError == [tag |-> "UsageError", candidates |-> <<>>, source |-> "none"]
FuzzyMatch(candidate, source) == [tag |-> "FuzzyMatch", candidates |-> <<candidate>>, source |-> source]
Ambiguous(top, source) == [tag |-> "Ambiguous", candidates |-> top, source |-> source]

\* zero survivors: NotFound; one, or auto-pick requested: FuzzyMatch; else Ambiguous (top 10)
Decide(ranked, o, source) ==
    IF Len(ranked) = 0 THEN NotFound
    ELSE IF Len(ranked) = 1 \/ o.autoSelect = "top1" THEN FuzzyMatch(ranked[1], source)
    ELSE Ambiguous(SubSeq(ranked, 1, Min(10, Len(ranked))), source)

SetOf(seq) == {seq[i] : i \in 1..Len(seq)}

FallbackAlsoWhenAmbiguous(ranked, o) ==
    (Len(ranked) = 0 \/ (Len(ranked) > 1 /\ o.autoSelect # "top1")) /\ o.source = "auto" /\ ~o.offline
\* auto (online): re-query the remote only if the local candidates yield zero ranked matches
FallsBackToRemote(ranked, o) == Len(ranked) = 0 /\ o.source = "auto" /\ ~o.offline

BACON == <<"b", "a", "c", "o", "n">>
M_GIT == <<"m", ":", "g", "i", "t">>
E_BACON == <<"e", ":", "b", "a", "c", "o", "n">>
A_XY == <<"a", ":", "x", "y">>

Queries == {BACON, <<"x">>, <<"B", "a">>, <<"-">>, <<" ">>}

ResolveIndexStates ==
    {Absent, Threw, Snapshot(0, <<>>), Snapshot(1, <<M_GIT>>), Snapshot(2, <<A_XY, B_X>>)}

SearchStates ==
    {RemoteOk(<<>>), RemoteOk(<<E_BACON>>), RemoteOk(<<E_BACON, A_XY>>), HttpError(500), OtherError}

MinScores == {Ratio(45, 100), Ratio(95, 100)}

IdleResolve ==
    /\ rQuery = <<>>
    /\ rOpts = [source |-> "auto", offline |-> FALSE, autoSelect |-> "undefined",
                minScore |-> Ratio(45, 100), collections |-> {}, preferPrefixes |-> {}]
    /\ rIdx = Absent
    /\ rRemote = OtherError
    /\ rPc = "idle"
    /\ rCalls = <<>>
    /\ rResult = NoOutcome

StartResolve ==
    /\ rQuery \in Queries
    /\ rOpts \in [source : SourceModes, offline : BOOLEAN, autoSelect : {"undefined", "top1"},
                  minScore : MinScores, collections : {{}, {<<"A">>}},
                  preferPrefixes : {{}, {<<"a">>}}]
    /\ rIdx \in ResolveIndexStates
    /\ rRemote \in SearchStates
    /\ rPc = "called"
    /\ rCalls = <<>>
    /\ rResult = NoOutcome

ResolveReturn(result) ==
    /\ rPc' = "returned"
    /\ rResult' = result
    /\ UNCHANGED rCalls

ResolveCall(name) ==
    /\ rPc' = name
    /\ rCalls' = Append(rCalls, name)
    /\ UNCHANGED rResult

ResolveFrame == UNCHANGED <<rQuery, rOpts, rIdx, rRemote>> /\ UNCHANGED notResolve

\* resolve is called: a blank query is a usage error; local-only, offline and
\* auto read the snapshot store, remote-only queries the remote client
ResolveStart ==
    /\ rPc = "called"
    /\ IF Trim(rQuery) = <<>> THEN ResolveReturn(UsageError)
       ELSE IF ReadsIndex(rOpts) THEN ResolveCall("readIndex")
       ELSE ResolveCall("search")
    /\ ResolveFrame

\* the snapshot store has answered
ResolveIndexRead ==
    /\ rPc = "readIndex"
    /\ IF rIdx = Threw THEN ResolveReturn(FilesystemError)
       ELSE IF rIdx = Absent
            THEN IF useIndexOnly(rOpts) THEN ResolveReturn(SourceUnavailable)
                 ELSE ResolveCall("search")
       ELSE LET ranked == RankCandidates(rQuery, SetOf(rIdx.icons), rOpts)
            IN  IF FallsBackToRemote(ranked, rOpts) THEN ResolveCall("search")
                ELSE ResolveReturn(Decide(ranked, rOpts, "index"))
    /\ ResolveFrame

\* the remote client has answered the search
ResolveSearched ==
    /\ rPc = "search"
    /\ IF rRemote.kind # "ok" THEN ResolveReturn(TransportError)
       ELSE ResolveReturn(Decide(RankCandidates(rQuery, SetOf(rRemote.value), rOpts), rOpts, "remote"))
    /\ ResolveFrame

NextResolve ==
    \/ ResolveStart
    \/ ResolveIndexRead
    \/ ResolveSearched

----------------------------------------------------------------------------
(* extra-commands.ts: fetchIcon *)

SVG == <<"s", "v", "g">>

\* a NodeJS.ErrnoException thrown by access, mkdir or writeFile
ErrnoException(code) == [kind |-> "errno", code |-> code]

DownloadStates == {RemoteOk(SVG), HttpError(404), HttpError(500), OtherError}

FetchCaughtRethrows(error) ==
    IF error.kind = "http"
    THEN failWith("API_ERROR", <<"Failed to download SVG">>, error)
    ELSE [thrown |-> error]
\* catch (error) of fetchIcon
FetchCaught(error) ==
    IF error.kind = "http"
    THEN failWith("API_ERROR", <<"Failed to download SVG">>, error)
    ELSE failWith("FS_ERROR", <<"Failed to write SVG file">>, error)

NeverExists(file) == FALSE
\* await access(opts.output) resolves
Exists(file) == file # "absent"

OfflineIgnored(o) == FALSE
\* if (opts.offline) return failWith("INVALID_USAGE", ...)
RejectsOffline(o) == o.offline

IdleFetch ==
    /\ fQuery = "blank"
    /\ fOpts = [offline |-> FALSE, force |-> FALSE, match |-> "exact", autoSelect |-> "undefined"]
    /\ fEnv = [accessFails |-> FALSE, download |-> OtherError, mkdirFails |-> FALSE,
               writeFails |-> FALSE]
    /\ fFile = "absent"
    /\ fFileAtCall = "absent"
    /\ fPc = "idle"
    /\ fCalls = <<>>
    /\ fResult = NoOutcome

StartFetch ==
    /\ fQuery \in QueryKinds \cup {"blank"}
    /\ fOpts \in [offline : BOOLEAN, force : BOOLEAN, match : {"exact", "fuzzy"},
                  autoSelect : {"undefined", "top1"}]
    /\ fEnv \in [accessFails : BOOLEAN, download : DownloadStates, mkdirFails : BOOLEAN,
                 writeFails : BOOLEAN]
    /\ fFile \in {"absent", "old"}
    /\ fFileAtCall = fFile
    /\ fPc = "called"
    /\ fCalls = <<>>
    /\ fResult = NoOutcome

FetchReturn(result) ==
    /\ fPc' = "returned"
    /\ fResult' = result

FetchCall(name) ==
    /\ fPc' = name
    /\ fCalls' = Append(fCalls, name)
    /\ UNCHANGED fResult

FetchFrame == UNCHANGED <<fQuery, fOpts, fEnv, fFileAtCall>> /\ UNCHANGED notFetch

\* the offline check, resolveIcon, then access (unless force) or downloadIconSvg
FetchStart ==
    /\ fPc = "called"
    /\ IF RejectsOffline(fOpts)
       THEN /\ FetchReturn(failWith("INVALID_USAGE", <<"--offline is not supported for fetch">>,
                                    NoDetails))
            /\ UNCHANGED fCalls
       ELSE LET resolved == resolveIcon(fQuery, fOpts.match, fOpts.autoSelect)
            IN  IF ~resolved.ok
                THEN /\ FetchReturn(resolved)
                     /\ fCalls' = Append(fCalls, "resolveIcon")
                ELSE /\ fPc' = IF fOpts.force THEN "download" ELSE "access"
                     /\ fCalls' = fCalls \o <<"resolveIcon", fPc'>>
                     /\ UNCHANGED fResult
    /\ UNCHANGED fFile
    /\ FetchFrame

\* access(opts.output) has settled
FetchAccessed ==
    /\ fPc = "access"
    /\ IF fEnv.accessFails
       THEN FetchReturn(FetchCaught(ErrnoException("EACCES"))) /\ UNCHANGED fCalls
       ELSE IF Exists(fFile)
            THEN /\ FetchReturn(failWith("OUTPUT_EXISTS", <<"Refusing to overwrite existing file">>,
                                         NoDetails))
                 /\ UNCHANGED fCalls
            ELSE FetchCall("download")
    /\ UNCHANGED fFile
    /\ FetchFrame

\* downloadIconSvg(icon) has settled
FetchDownloaded ==
    /\ fPc = "download"
    /\ IF fEnv.download.kind # "ok"
       THEN FetchReturn(FetchCaught(fEnv.download)) /\ UNCHANGED fCalls
       ELSE FetchCall("mkdir")
    /\ UNCHANGED fFile
    /\ FetchFrame

\* mkdir(dirname(opts.output), { recursive: true }) has settled
FetchDirMade ==
    /\ fPc = "mkdir"
    /\ IF fEnv.mkdirFails
       THEN FetchReturn(FetchCaught(ErrnoException("EACCES"))) /\ UNCHANGED fCalls
       ELSE FetchCall("writeFile")
    /\ UNCHANGED fFile
    /\ FetchFrame

\* writeFile(opts.output, svg, "utf8") has settled; a failed write leaves the
\* file as it was or, when it failed after opening, truncated
FetchWritten ==
    /\ fPc = "writeFile"
    /\ IF fEnv.writeFails
       THEN /\ FetchReturn(FetchCaught(ErrnoException("EIO")))
            /\ fFile' \in {fFile, "truncated"}
       ELSE /\ FetchReturn(ok([icon |-> resolveIcon(fQuery, fOpts.match, fOpts.autoSelect).data.icon,
                                bytes |-> Len(fEnv.download.value)]))
            /\ fFile' = "svg"
    /\ UNCHANGED fCalls
    /\ FetchFrame

NextFetch ==
    \/ FetchStart
    \/ FetchAccessed
    \/ FetchDownloaded
    \/ FetchDirMade
    \/ FetchWritten

----------------------------------------------------------------------------
(* extra-commands.ts: doctor *)

NoChecks == [api |-> FALSE, cacheDir |-> FALSE, index |-> FALSE]

\* const code = checks.cacheDir.ok && checks.index.ok ? "API_ERROR" : "FS_ERROR"
DoctorCode(checks) == IF checks.cacheDir /\ checks.index THEN "API_ERROR" ELSE "FS_ERROR"

\* summary.ok, then ok(summary) or failWith(code, "Doctor checks failed", summary)
DoctorResult(checks) ==
    IF checks.api /\ checks.cacheDir /\ checks.index
    THEN ok(checks)
    ELSE failWith(DoctorCode(checks), <<"Doctor checks failed">>, checks)

IdleDoctor ==
    /\ dOpts = [offline |-> FALSE, format |-> "json"]
    /\ dEnv = [meta |-> "ok", cacheDir |-> "ok", index |-> Absent]
    /\ dChecks = NoChecks
    /\ dPc = "idle"
    /\ dResult = NoOutcome

StartDoctor ==
    /\ dOpts \in [offline : BOOLEAN, format : {"json", "plain"}]
    /\ dEnv \in [meta : {"ok", "http", "error"},
                 cacheDir : {"ok", "mkdir", "writeFile", "rm"},
                 index : {Absent, Threw, Snapshot(1, <<A_X>>)}]
    /\ dChecks = NoChecks
    /\ dPc = "called"
    /\ dResult = NoOutcome

DoctorFrame == UNCHANGED <<dOpts, dEnv>> /\ UNCHANGED notDoctor

\* if (!opts.offline) await getCollectionsMetadata() else checks.api.ok = true
DoctorStart ==
    /\ dPc = "called"
    /\ IF ~dOpts.offline
       THEN dPc' = "metadata" /\ UNCHANGED dChecks
       ELSE dPc' = "cacheDir" /\ dChecks' = [dChecks EXCEPT !.api = TRUE]
    /\ UNCHANGED dResult
    /\ DoctorFrame

\* getCollectionsMetadata() has settled; a failure is recorded in checks.api.error
DoctorApiChecked ==
    /\ dPc = "metadata"
    /\ dChecks' = [dChecks EXCEPT !.api = (dEnv.meta = "ok")]
    /\ dPc' = "cacheDir"
    /\ UNCHANGED dResult
    /\ DoctorFrame

\* mkdir, writeFile and rm of the probe file have settled
DoctorCacheChecked ==
    /\ dPc = "cacheDir"
    /\ dChecks' = [dChecks EXCEPT !.cacheDir = (dEnv.cacheDir = "ok")]
    /\ dPc' = "readIndex"
    /\ UNCHANGED dResult
    /\ DoctorFrame

\* readIndex() has settled; doctor returns the summary
DoctorIndexRead ==
    /\ dPc = "readIndex"
    /\ dChecks' = [dChecks EXCEPT !.index = (dEnv.index # Threw)]
    /\ dPc' = "returned"
    /\ dResult' = DoctorResult(dChecks')
    /\ DoctorFrame

NextDoctor ==
    \/ DoctorStart
    \/ DoctorApiChecked
    \/ DoctorCacheChecked
    \/ DoctorIndexRead

----------------------------------------------------------------------------
(* fuzzy.ts: scoreCandidate applied to a query and two candidates *)

LetterStrings == UNION {[1..n -> {"a", "b"}] : n \in 0..MaxScoreLen}

\* strings with upper case, separators and the prefix separator
MixedStrings ==
    {<<"-">>, <<"A">>, <<"a", ":", "b">>, <<"A", "-", "b">>, <<"b", ":", "a", "b", "a">>,
     <<":", "a">>, <<"a", ":", "b", ":", "a">>}

ScoreStrings == LetterStrings \cup MixedStrings

NoScores == [left |-> Ratio(0, 1), right |-> Ratio(0, 1), self |-> Ratio(0, 1)]

IdleScore ==
    /\ sQuery = <<>>
    /\ sLeft = <<>>
    /\ sRight = <<>>
    /\ sPc = "idle"
    /\ sScores = NoScores

StartScore ==
    /\ sQuery \in ScoreStrings
    /\ sLeft \in ScoreStrings
    /\ sRight \in ScoreStrings
    /\ sPc = "called"
    /\ sScores = NoScores

\* the candidates and the query itself are scored against the query
Score ==
    /\ sPc = "called"
    /\ sScores' = [left |-> scoreCandidate(sQuery, sLeft),
                   right |-> scoreCandidate(sQuery, sRight),
                   self |-> scoreCandidate(sQuery, sQuery)]
    /\ sPc' = "scored"
    /\ UNCHANGED <<sQuery, sLeft, sRight>>
    /\ UNCHANGED notScore

NextScore == Score

----------------------------------------------------------------------------
(* render-manifest.ts: the values of a manifest record and their parsers *)

Undefined == [t |-> "undefined"]
Null == [t |-> "null"]
Str(v) == [t |-> "string", s |-> v]
Num(v) == [t |-> "number", n |-> v]
Bool(v) == [t |-> "boolean", b |-> v]
List(v) == [t |-> "array", a |-> v]
RenderManifestError(message) == [t |-> "throw", message |-> message]

\* value === undefined || value === null || value === ""
IsMissing(value) == value \in {Undefined, Null, Str(<<>>)}

DigitValue(c) == CASE c = "0" -> 0 [] c = "1" -> 1 [] c = "2" -> 2 [] OTHER -> 0
IsDigits(s) == s # <<>> /\ \A i \in 1..Len(s) : s[i] \in {"0", "1", "2"}
RECURSIVE DigitsValue(_)
DigitsValue(s) == IF s = <<>> THEN 0 ELSE 10 * DigitsValue(SubSeq(s, 1, Len(s) - 1)) + DigitValue(s[Len(s)])

\* Number.isFinite(Number(value)) for a string: white space is trimmed, the
\* empty string converts to 0
IsFiniteNumber(s) == Trim(s) = <<>> \/ IsDigits(Trim(s))
ToNumber(s) == IF Trim(s) = <<>> THEN 0 ELSE DigitsValue(Trim(s))

\* String(value) of a string, a one-digit number or a boolean
StringOf(value) ==
    CASE value.t = "string" -> value.s
      [] value.t = "number" -> <<CHOOSE c \in {"0", "1", "2"} : DigitValue(c) = value.n>>
      [] value.t = "boolean" -> IF value.b THEN <<"t", "r", "u", "e">> ELSE <<"f", "a", "l", "s", "e">>
      [] OTHER -> <<>>

TrueWords == {<<"1">>, <<"t", "r", "u", "e">>, <<"y", "e", "s">>, <<"y">>}
FalseWords == {<<"0">>, <<"f", "a", "l", "s", "e">>, <<"n", "o">>, <<"n">>}

parseBoolean(label, value) ==
    IF IsMissing(value) THEN Undefined
    ELSE IF value.t = "boolean" THEN value
    ELSE IF value.t = "number" /\ value.n \in {0, 1} THEN Bool(value.n = 1)
    ELSE IF value.t = "string" /\ ToLowerCase(Trim(value.s)) \in TrueWords THEN Bool(TRUE)
    ELSE IF value.t = "string" /\ ToLowerCase(Trim(value.s)) \in FalseWords THEN Bool(FALSE)
    ELSE RenderManifestError(<<label, "must be boolean (true/false/1/0).">>)

parseNumber(label, value) ==
    IF IsMissing(value) THEN Undefined
    ELSE IF value.t = "number" THEN value
    ELSE IF value.t = "string" /\ IsFiniteNumber(value.s) THEN Num(ToNumber(value.s))
    ELSE RenderManifestError(<<label, "must be a number.">>)

\* the pieces of a string between commas
RECURSIVE SplitComma(_)
SplitComma(s) ==
    IF IndexOf(s, ",") = -1 THEN <<s>>
    ELSE <<Slice(s, 0, IndexOf(s, ","))>> \o SplitComma(SubSeq(s, IndexOf(s, ",") + 2, Len(s)))

\* .map((entry) => entry.trim()).filter(Boolean), undefined when nothing is left
TrimmedEntries(entries) ==
    LET filtered == SelectSeq([i \in 1..Len(entries) |-> Trim(entries[i])], LAMBDA e : e # <<>>)
    IN  IF Len(filtered) > 0 THEN List(filtered) ELSE Undefined

parseStringArray(value) ==
    IF IsMissing(value) THEN Undefined
    ELSE IF value.t = "array" THEN TrimmedEntries(value.a)
    ELSE IF value.t = "string" THEN TrimmedEntries(SplitComma(value.s))
    ELSE Undefined

parseEnum(label, value, allowed) ==
    IF IsMissing(value) THEN Undefined
    ELSE IF Trim(StringOf(value)) \in allowed THEN Str(Trim(StringOf(value)))
    ELSE RenderManifestError(<<label, "must be one of the allowed values.">>)

\* pickFirst(...)?.toString().trim() || undefined
parseText(value) ==
    IF value \in {Undefined, Null} \/ Trim(StringOf(value)) = <<>> THEN Undefined
    ELSE Str(Trim(StringOf(value)))

RECURSIVE pickFirst(_, _)
pickFirst(source, keys) ==
    IF keys = <<>> THEN Undefined
    ELSE IF source[keys[1]] # Undefined THEN source[keys[1]]
    ELSE pickFirst(source, Tail(keys))

\* String(raw ?? "").trim()
RequiredText(raw) == IF raw \in {Undefined, Null} THEN <<>> ELSE Trim(StringOf(raw))

EXACT == <<"e", "x", "a", "c", "t">>
FUZZY == <<"f", "u", "z", "z", "y">>
AUTO == <<"a", "u", "t", "o">>
INDEX == <<"i", "n", "d", "e", "x">>
API == <<"a", "p", "i">>
TOP1 == <<"t", "o", "p", "1">>

OptionalFields ==
    {"size", "bg", "fg", "strokeWidth", "match", "source", "offline", "collections",
     "preferPrefixes", "autoSelect", "minScore", "force", "dryRun"}

\* the RenderManyItem of a record, or the RenderManifestError thrown
normalizeManifestItem(value, index) ==
    LET queryOrIcon == RequiredText(pickFirst(value, <<"queryOrIcon", "query", "icon">>))
        output == RequiredText(pickFirst(value, <<"output", "path", "file">>))
        item ==
          [queryOrIcon |-> Str(queryOrIcon),
           output |-> Str(output),
           size |-> parseNumber("size", value.size),
           bg |-> parseText(pickFirst(value, <<"bg", "background">>)),
           fg |-> parseText(pickFirst(value, <<"fg", "foreground">>)),
           strokeWidth |-> parseNumber("strokeWidth", pickFirst(value, <<"strokeWidth", "stroke_width">>)),
           match |-> parseEnum("match", value.match, {EXACT, FUZZY}),
           source |-> parseEnum("source", value.source, {AUTO, INDEX, API}),
           offline |-> parseBoolean("offline", value.offline),
           collections |-> parseStringArray(pickFirst(value, <<"collections", "collection">>)),
           preferPrefixes |-> parseStringArray(pickFirst(value, <<"preferPrefixes", "preferPrefix", "prefer_prefix">>)),
           autoSelect |-> parseEnum("autoSelect", pickFirst(value, <<"autoSelect", "auto_select">>), {TOP1}),
           minScore |-> parseNumber("minScore", pickFirst(value, <<"minScore", "min_score">>)),
           force |-> parseBoolean("force", value.force),
           dryRun |-> parseBoolean("dryRun", pickFirst(value, <<"dryRun", "dry_run">>))]
        thrown == {f \in OptionalFields : item[f].t = "throw"}
    IN  IF queryOrIcon = <<>> THEN RenderManifestError(<<"queryOrIcon/query/icon is required.">>)
        ELSE IF output = <<>> THEN RenderManifestError(<<"output/path/file is required.">>)
        ELSE IF thrown # {} THEN item[CHOOSE f \in thrown : TRUE]
        ELSE item

\* values.map((entry, index) => normalizeManifestItem(entry, index)): the items,
\* or the error of the first record that throws
parseManifest(records) ==
    LET normalized == [i \in 1..Len(records) |-> normalizeManifestItem(records[i], i - 1)]
        failing == {i \in 1..Len(records) : "t" \in DOMAIN normalized[i]}
    IN  IF failing = {} THEN [error |-> Undefined, items |-> normalized]
        ELSE [error |-> normalized[CHOOSE i \in failing : \A j \in failing : i <= j],
              items |-> <<>>]

----------------------------------------------------------------------------
(* extra-commands.ts, render-manifest.ts: renderMany from the records of the    *)
(* manifest to the options of each render                                      *)

RecordKeys ==
    {"queryOrIcon", "query", "icon", "output", "path", "file", "size", "bg", "background",
     "fg", "foreground", "strokeWidth", "stroke_width", "match", "source", "offline",
     "collections", "collection", "preferPrefixes", "preferPrefix", "prefer_prefix",
     "autoSelect", "auto_select", "minScore", "min_score", "force", "dryRun", "dry_run"}

EmptyRecord == [k \in RecordKeys |-> Undefined]
ValidRecord == [EmptyRecord EXCEPT !.query = Str(<<"a", ":", "x">>), !.output = Str(<<"o">>)]

Vector(key, raw, field, class, means) ==
    [key |-> key, raw |-> raw, field |-> field, class |-> class, means |-> means]

\* one optional field of a record: the key and raw value written in the manifest,
\* and what the value means (class "specified"), or that it is absent, blank
\* (white space only) or malformed
Vectors ==
    {Vector("size", Num(0), "size", "specified", Num(0)),
     Vector("size", Str(<<"2">>), "size", "specified", Num(2)),
     Vector("size", Null, "size", "absent", Undefined),
     Vector("size", Str(<<>>), "size", "absent", Undefined),
     Vector("size", Str(<<" ">>), "size", "blank", Undefined),
     Vector("size", Str(<<"x">>), "size", "malformed", Undefined),
     Vector("background", Str(<<" ", "x", " ">>), "bg", "specified", Str(<<"x">>)),
     Vector("bg", Str(<<" ">>), "bg", "blank", Undefined),
     Vector("fg", Str(<<"y">>), "fg", "specified", Str(<<"y">>)),
     Vector("stroke_width", Num(0), "strokeWidth", "specified", Num(0)),
     Vector("match", Str(FUZZY), "match", "specified", Str(FUZZY)),
     Vector("match", Str(<<" ">> \o EXACT), "match", "specified", Str(EXACT)),
     Vector("match", Str(<<" ">>), "match", "blank", Undefined),
     Vector("match", Str(<<"b">>), "match", "malformed", Undefined),
     Vector("source", Str(INDEX), "source", "specified", Str(INDEX)),
     Vector("offline", Bool(FALSE), "offline", "specified", Bool(FALSE)),
     Vector("offline", Str(<<"Y">>), "offline", "specified", Bool(TRUE)),
     Vector("offline", Num(0), "offline", "specified", Bool(FALSE)),
     Vector("offline", Str(<<"x">>), "offline", "malformed", Undefined),
     Vector("collections", Str(<<"a", ",", " ", "b">>), "collections", "specified",
            List(<<<<"a">>, <<"b">>>>)),
     Vector("collection", List(<<<<" ">>>>), "collections", "blank", Undefined),
     Vector("prefer_prefix", List(<<<<"a">>>>), "preferPrefixes", "specified", List(<<<<"a">>>>)),
     Vector("auto_select", Str(TOP1), "autoSelect", "specified", Str(TOP1)),
     Vector("min_score", Num(0), "minScore", "specified", Num(0)),
     Vector("force", Bool(FALSE), "force", "specified", Bool(FALSE)),
     Vector("dry_run", Bool(TRUE), "dryRun", "specified", Bool(TRUE))}

RecordOf(v) == [ValidRecord EXCEPT ![v.key] = v.raw]

ManifestRecords ==
    {RecordOf(v) : v \in Vectors}
      \cup {ValidRecord,
            [ValidRecord EXCEPT !.query = Undefined],
            [ValidRecord EXCEPT !.query = Str(<<" ">>)],
            [ValidRecord EXCEPT !.output = Null],
            [EmptyRecord EXCEPT !.icon = Str(<<"x">>), !.file = Str(<<"o">>)]}

\* the records that accompany the record under study in a manifest
NeighbourRecords ==
    {ValidRecord,
     [ValidRecord EXCEPT !.output = Null],
     [EmptyRecord EXCEPT !.icon = Str(<<"x">>), !.file = Str(<<"o">>)],
     RecordOf(Vector("size", Num(0), "size", "specified", Num(0))),
     RecordOf(Vector("offline", Bool(FALSE), "offline", "specified", Bool(FALSE)))}

\* manifests of up to MaxRecords records: any record at one position, its
\* neighbours at the others
Manifests ==
    UNION {{m \in [1..n -> ManifestRecords] :
                n = 0 \/ \E i \in 1..n : \A j \in (1..n) \ {i} : m[j] \in NeighbourRecords}
            : n \in 0..MaxRecords}

\* the batch-level options of the command line
BatchDefaults ==
    {[size |-> Num(1), bg |-> Str(<<"w">>), fg |-> Undefined, strokeWidth |-> Undefined,
      match |-> Str(EXACT), source |-> Str(AUTO), offline |-> Bool(TRUE),
      collections |-> Undefined, preferPrefixes |-> Undefined, autoSelect |-> Undefined,
      minScore |-> Num(1), force |-> Bool(TRUE), dryRun |-> Bool(FALSE), failFast |-> ff]
        : ff \in BOOLEAN}
      \cup
    {[size |-> Num(2), bg |-> Str(<<"b">>), fg |-> Str(<<"w">>), strokeWidth |-> Num(2),
      match |-> Str(FUZZY), source |-> Str(API), offline |-> Bool(FALSE),
      collections |-> List(<<<<"c">>>>), preferPrefixes |-> List(<<<<"c">>>>),
      autoSelect |-> Str(TOP1), minScore |-> Num(2), force |-> Bool(FALSE),
      dryRun |-> Bool(TRUE), failFast |-> FALSE]}

CoalesceFalsy(a, b) ==
    IF a \in {Undefined, Null, Bool(FALSE), Num(0), Str(<<>>)} THEN b ELSE a
\* a ?? b
Coalesce(a, b) == IF a \in {Undefined, Null} THEN b ELSE a

\* the options renderOne passes to renderIcon
EffectiveOptions(item, o) ==
    [f \in OptionalFields \cup {"output"} |->
        IF f = "output" THEN item.output ELSE Coalesce(item[f], o[f])]

\* renderOne: the options passed and whether the render succeeded
RenderWith(item, o) ==
    LET options == EffectiveOptions(item, o)
        result == renderIcon(IF IndexOf(item.queryOrIcon.s, ":") # -1 THEN "id" ELSE "word",
                             IF options.match = Str(EXACT) THEN "exact" ELSE "fuzzy",
                             IF options.autoSelect = Undefined THEN "undefined" ELSE "top1")
    IN  [options |-> options, ok |-> result.ok]

IdleManifest ==
    /\ mRecords = <<>>
    /\ mOpts = CHOOSE o \in BatchDefaults : o.size = Num(2)
    /\ mPc = "idle"
    /\ mItems = <<>>
    /\ mRendered = <<>>
    /\ mResult = NoOutcome

StartManifest ==
    /\ mRecords \in Manifests
    /\ mOpts \in BatchDefaults
    /\ mPc = "called"
    /\ mItems = <<>>
    /\ mRendered = <<>>
    /\ mResult = NoOutcome

\* loadRenderManifestItems has settled: a RenderManifestError or an empty
\* manifest is a usage error, otherwise the renders begin
ManifestLoaded ==
    /\ mPc = "called"
    /\ LET parsed == parseManifest(mRecords)
       IN  IF parsed.error # Undefined
           THEN /\ mPc' = "returned"
                /\ mResult' = failWith("INVALID_USAGE", parsed.error.message, NoDetails)
                /\ UNCHANGED mItems
           ELSE IF Len(parsed.items) = 0
           THEN /\ mPc' = "returned"
                /\ mResult' = failWith("INVALID_USAGE", <<"Manifest contains no items.">>, NoDetails)
                /\ UNCHANGED mItems
           ELSE /\ mPc' = "rendering"
                /\ mItems' = parsed.items
                /\ UNCHANGED mResult
    /\ UNCHANGED <<mRecords, mOpts, mRendered>>
    /\ UNCHANGED notManifest

\* renderOne of the next item has settled; after the last one, or after a
\* failure under fail-fast, renderMany returns the report
ItemRendered ==
    /\ mPc = "rendering"
    /\ LET rendered == Append(mRendered, RenderWith(mItems[Len(mRendered) + 1], mOpts))
           failed == Cardinality({i \in 1..Len(rendered) : ~rendered[i].ok})
           last == Len(rendered) = Len(mItems) \/ (mOpts.failFast /\ failed > 0)
       IN  /\ mRendered' = rendered
           /\ mPc' = IF last THEN "returned" ELSE "rendering"
           /\ mResult' =
                IF ~last THEN mResult
                ELSE IF failed > 0 \/ Len(rendered) # Len(mItems)
                THEN failWith("RENDER_ERROR", <<"One or more render operations failed.">>,
                              [attempted |-> Len(rendered), failed |-> failed])
                ELSE ok([attempted |-> Len(rendered), failed |-> failed])
    /\ UNCHANGED <<mRecords, mOpts, mItems>>
    /\ UNCHANGED notManifest

NextManifest ==
    \/ ManifestLoaded
    \/ ItemRendered

----------------------------------------------------------------------------
(* commands.ts, cli-utils.ts: the actions of the command line and the exit code *)

ExitCodeZero(code) == 0
\* errorToExitCode; "undefined" stands for a result without an error code
errorToExitCode(code) ==
    CASE code = "INVALID_USAGE" -> 2
      [] code = "NOT_FOUND" -> 3
      [] code = "API_ERROR" -> 4
      [] code = "RENDER_ERROR" -> 5
      [] code \in {"FS_ERROR", "OUTPUT_EXISTS"} -> 6
      [] code = "BROWSER_ERROR" -> 7
      [] code = "AMBIGUOUS" -> 8
      [] OTHER -> 1

\* an Error thrown by the action
Thrown(message) == [thrown |-> message]

\* parseMatch, parseSource, parseAutoSelect: the option values they accept
MatchModes == {"exact", "fuzzy"}
AutoSelectModes == {"top1"}

\* validateSourceMode: --offline with --source api throws
SourceModeInvalid(source, offline) == offline /\ source = "api"

\* requireArgument throws unless the argument has a character other than white space
ArgumentMissing(value) == value \in {"undefined", "blank"}

\* the options of the resolve command as typed; "undefined" is an option not given
ResolveArgs ==
    [query : QueryKinds \cup {"undefined", "blank"},
     match : MatchModes \cup {"best"},
     autoSelect : AutoSelectModes \cup {"undefined", "top2"},
     source : {"auto", "index", "api"},
     offline : BOOLEAN]

NoArgs ==
    [query |-> "undefined", match |-> "exact", autoSelect |-> "undefined", source |-> "auto",
     offline |-> FALSE]

IdleCli ==
    /\ aCommand = "none"
    /\ aArgs = NoArgs
    /\ aPc = "idle"
    /\ aResult = NoOutcome
    /\ exitCode = 0

StartCli(command, args) ==
    /\ aCommand = command
    /\ aArgs \in args
    /\ aPc = "called"
    /\ aResult = NoOutcome
    /\ exitCode = 0

\* process.exitCode = result.ok ? 0 : errorToExitCode(result.error?.code)
Exit(result) ==
    /\ aPc' = "exited"
    /\ aResult' = result
    /\ exitCode' = IF result.ok THEN 0 ELSE errorToExitCode(result.code)

\* program.parseAsync(process.argv).catch(...): process.exit(2)
ExitThrown(message) ==
    /\ aPc' = "exited"
    /\ aResult' = Thrown(message)
    /\ exitCode' = 2

\* the action of the resolve command with a positional argument
ResolveAction ==
    /\ aCommand = "resolve"
    /\ aPc = "called"
    /\ IF SourceModeInvalid(aArgs.source, aArgs.offline)
       THEN ExitThrown(<<"--offline cannot be used with --source api.">>)
       ELSE IF aArgs.match \notin MatchModes
       THEN ExitThrown(<<"Invalid --match">>)
       ELSE IF aArgs.autoSelect \notin AutoSelectModes \cup {"undefined"}
       THEN ExitThrown(<<"Invalid --auto-select">>)
       ELSE IF ArgumentMissing(aArgs.query)
       THEN ExitThrown(<<"query-or-icon is required.">>)
       ELSE Exit(resolveIcon(aArgs.query, aArgs.match, aArgs.autoSelect))
    /\ UNCHANGED <<aCommand, aArgs>>
    /\ UNCHANGED notCli

\* the result of the command the action awaits, once it has returned
Awaited ==
    CASE aCommand = "render-many" /\ phase = "returned" -> outcome
      [] aCommand \in {"collections list", "collections info"} /\ cPc = "returned" -> cResult
      [] aCommand = "fetch" /\ fPc = "returned" -> fResult
      [] aCommand = "doctor" /\ dPc = "returned" -> dResult
      [] OTHER -> NoOutcome

\* the actions of render-many, fetch, collections list, collections info and
\* doctor after their command has returned
CommandAction ==
    /\ aPc = "called"
    /\ Awaited # NoOutcome
    /\ Exit(Awaited)
    /\ UNCHANGED <<aCommand, aArgs>>
    /\ UNCHANGED notCli

NextCli ==
    \/ ResolveAction
    \/ CommandAction
    \/ NextBatch
    \/ NextColl
    \/ NextFetch
    \/ NextDoctor

----------------------------------------------------------------------------
(* command-utils.ts: withConcurrency on its own, with a worker that may throw *)

\* what a worker promise settles with
Fulfilled(index) == [kind |-> "value", of |-> index]
Rejected(index) == [kind |-> "thrown", of |-> index]

Stay(cur) == cur
\* cursor += 1
Advance(cur) == cur + 1

SomeFulfilled(rs) == \E r \in DOMAIN rs : rs[r].state = "done"
\* Promise.all(runners) fulfils when every runner has fulfilled
AllFulfilled(rs) == \A r \in DOMAIN rs : rs[r].state = "done"

\* Promise.all(runners) rejects as soon as one runner has rejected
SomeRejected(rs) == \E r \in DOMAIN rs : rs[r].state = "failed"

IdlePool ==
    /\ pN = 0
    /\ pConcurrency = 2
    /\ pThrows = {}
    /\ pPc = "idle"
    /\ pCursor = 0
    /\ pResults = EmptyArray
    /\ pRunners = EmptyArray
    /\ pInflight = {}
    /\ pSettled = EmptyArray
    /\ pStarted = <<>>
    /\ pLate = {}

StartPool ==
    /\ pN \in 0..MaxItems
    /\ pConcurrency \in ConcurrencyValues
    /\ pThrows \in SUBSET (0..(pN - 1))
    /\ pPc = "called"
    /\ pCursor = 0
    /\ pResults = EmptyArray
    /\ pRunners = EmptyArray
    /\ pInflight = {}
    /\ pSettled = EmptyArray
    /\ pStarted = <<>>
    /\ pLate = {}

PoolFrame == UNCHANGED <<pN, pConcurrency, pThrows>> /\ UNCHANGED notPool

\* withConcurrency up to `await Promise.all(runners)`: Array.from runs every
\* runner synchronously up to its first await, each taking the cursor's index
PoolStart ==
    /\ pPc = "called"
    /\ LET k == RunnerCount(pConcurrency, pN)
           taken == [j \in 1..k |-> j - 1]
       IN  /\ pPc' = "running"
           /\ pResults' = NewArray(pN)
           /\ pRunners' = [r \in 0..(k - 1) |-> [state |-> "awaiting", index |-> r]]
           /\ pCursor' = IF k = 0 THEN 0 ELSE Advance(k - 1)
           /\ pInflight' = 0..(k - 1)
           /\ pStarted' = taken
    /\ UNCHANGED <<pSettled, pLate>>
    /\ PoolFrame

\* the promise of worker(items[i], i) settles: fulfilled, or rejected if it throws
PoolWorkerSettle(i) ==
    /\ i \in pInflight
    /\ pInflight' = pInflight \ {i}
    /\ pSettled' = [j \in DOMAIN pSettled \cup {i} |->
                      IF j = i THEN (IF i \in pThrows THEN Rejected(i) ELSE Fulfilled(i))
                      ELSE pSettled[j]]
    /\ UNCHANGED <<pPc, pCursor, pResults, pRunners, pStarted, pLate>>
    /\ PoolFrame

\* a runner resumes after its await, whether or not Promise.all has settled:
\* a rejection ends the runner; otherwise it stores the result and takes the
\* next index from the shared cursor, or ends when the cursor is at the end
PoolRunnerResume(r) ==
    /\ pPc \in {"running", "resolved", "rejected"}
    /\ r \in DOMAIN pRunners
    /\ pRunners[r].state = "awaiting"
    /\ pRunners[r].index \in DOMAIN pSettled
    /\ LET index == pRunners[r].index
           value == pSettled[index]
       IN  /\ pSettled' = [j \in DOMAIN pSettled \ {index} |-> pSettled[j]]
           /\ IF value.kind = "thrown"
              THEN /\ pRunners' = [pRunners EXCEPT ![r] = [state |-> "failed", index |-> index]]
                   /\ UNCHANGED <<pResults, pCursor, pInflight, pStarted, pLate>>
              ELSE /\ pResults' = StoreResult(pResults, index, value)
                   /\ IF RunnerContinues(value, pCursor, pN)
                      THEN /\ pRunners' = [pRunners EXCEPT
                                             ![r] = [state |-> "awaiting", index |-> pCursor]]
                           /\ pCursor' = Advance(pCursor)
                           /\ pInflight' = pInflight \cup {pCursor}
                           /\ pStarted' = Append(pStarted, pCursor)
                           /\ pLate' = IF pPc = "running" THEN pLate ELSE pLate \cup {pCursor}
                      ELSE /\ pRunners' = [pRunners EXCEPT
                                             ![r] = [state |-> "done", index |-> index]]
                           /\ UNCHANGED <<pCursor, pInflight, pStarted, pLate>>
    /\ UNCHANGED pPc
    /\ PoolFrame

\* await Promise.all(runners) settles: withConcurrency rejects, or returns results
PoolSettle ==
    /\ pPc = "running"
    /\ IF SomeRejected(pRunners) THEN pPc' = "rejected"
       ELSE AllFulfilled(pRunners) /\ pPc' = "resolved"
    /\ UNCHANGED <<pCursor, pResults, pRunners, pInflight, pSettled, pStarted, pLate>>
    /\ PoolFrame

NextPool ==
    \/ PoolStart
    \/ \E i \in 0..(MaxItems - 1) : PoolWorkerSettle(i)
    \/ \E r \in 0..(MaxItems - 1) : PoolRunnerResume(r)
    \/ PoolSettle

----------------------------------------------------------------------------
(* commands.ts, cli-utils.ts, output.ts: the --stdin batch modes *)

TAB == "\t"

RECURSIVE StripStart(_)
StripStart(s) == IF s # <<>> /\ s[1] \in {" ", TAB} THEN StripStart(Tail(s)) ELSE s
RECURSIVE StripEnd(_)
StripEnd(s) == IF s # <<>> /\ s[Len(s)] \in {" ", TAB} THEN StripEnd(SubSeq(s, 1, Len(s) - 1)) ELSE s
\* String.prototype.trim on strings of letters, spaces and tabs
Strip(s) == StripEnd(StripStart(s))

\* readStdinLines: every line trimmed, empty lines dropped
readStdinLines(raw) ==
    SelectSeq([i \in 1..Len(raw) |-> Strip(raw[i])], LAMBDA line : Len(line) > 0)

ParseLenient(line, index) ==
    [queryOrIcon |-> line, output |-> line]
\* parseRenderStdinLine: the entry of a line, or the Error it throws
parseRenderStdinLine(line, index) ==
    LET separator == IndexOf(line, TAB)
        queryOrIcon == Strip(Slice(line, 0, separator))
        output == Strip(SubSeq(line, separator + 2, Len(line)))
    IN  IF separator <= 0 \/ separator = Len(line) - 1
        THEN Thrown(<<"Invalid render stdin line">>)
        ELSE IF queryOrIcon = <<>> \/ output = <<>>
        THEN Thrown(<<"Invalid render stdin line">>)
        ELSE [queryOrIcon |-> queryOrIcon, output |-> output]

LastFailureExitCode(currentExitCode, result) ==
    IF result.ok THEN currentExitCode ELSE errorToExitCode(result.code)
\* updateBatchExitCode
updateBatchExitCode(currentExitCode, result) ==
    IF result.ok \/ currentExitCode # 0 THEN currentExitCode
    ELSE errorToExitCode(result.code)

\* lines of standard input as typed
RawLines ==
    {<<"a">>, <<" ">>, <<"a", TAB, "a">>, <<TAB, "a">>, <<"a", TAB>>,
     <<" ", "a", " ", TAB, TAB, "a">>, <<"a", " ", "a">>}

\* the results resolveIcon, searchIcons and renderIcon return to the loop
LineOutcomes ==
    {ok([line |-> TRUE]),
     failWith("NOT_FOUND", <<"not found">>, NoDetails),
     failWith("API_ERROR", <<"request failed">>, NoDetails),
     failWith("AMBIGUOUS", <<"ambiguous">>, NoDetails)}

IdleStdin ==
    /\ bCommand = "none"
    /\ bRaw = <<>>
    /\ bOutcomes = [k \in 1..MaxLines |-> ok([line |-> TRUE])]
    /\ bPc = "idle"
    /\ bLines = <<>>
    /\ bPrinted = <<>>
    /\ bExitCode = 0
    /\ bProcessExit = 0

StartStdin ==
    /\ bCommand \in {"resolve", "search", "render"}
    /\ bRaw \in UNION {[1..n -> RawLines] : n \in 0..MaxLines}
    /\ bOutcomes \in [1..MaxLines -> LineOutcomes]
    /\ bPc = "called"
    /\ bLines = <<>>
    /\ bPrinted = <<>>
    /\ bExitCode = 0
    /\ bProcessExit = 0

StdinFrame == UNCHANGED <<bCommand, bRaw, bOutcomes>> /\ UNCHANGED notStdin

\* an Error thrown by the action: process.exit(2)
StdinThrown ==
    /\ bPc' = "exited"
    /\ bProcessExit' = 2
    /\ UNCHANGED <<bLines, bPrinted, bExitCode>>

\* readNonEmptyStdinLines, for render the parse of every line, `let exitCode = 0`
StdinRead ==
    /\ bPc = "called"
    /\ LET lines == readStdinLines(bRaw)
           parsedLines == [i \in 1..Len(lines) |-> parseRenderStdinLine(lines[i], i - 1)]
       IN  IF Len(lines) = 0
           THEN StdinThrown
           ELSE IF bCommand = "render" /\ \E i \in 1..Len(lines) : "thrown" \in DOMAIN parsedLines[i]
           THEN StdinThrown
           ELSE /\ bPc' = "looping"
                /\ bLines' = IF bCommand = "render" THEN parsedLines ELSE lines
                /\ bExitCode' = 0
                /\ UNCHANGED <<bPrinted, bProcessExit>>
    /\ StdinFrame

\* one iteration of the loop: the command function is awaited, its result
\* printed and folded into exitCode; after the last line process.exitCode is set
StdinLine ==
    /\ bPc = "looping"
    /\ LET k == Len(bPrinted) + 1
           result == bOutcomes[k]
           code == updateBatchExitCode(bExitCode, result)
       IN  /\ bPrinted' = Append(bPrinted, result)
           /\ bExitCode' = code
           /\ IF k = Len(bLines)
              THEN bPc' = "exited" /\ bProcessExit' = code
              ELSE UNCHANGED <<bPc, bProcessExit>>
    /\ UNCHANGED bLines
    /\ StdinFrame

NextStdin ==
    \/ StdinRead
    \/ StdinLine

----------------------------------------------------------------------------
(* Specifications: one per component, the other components at rest *)

\* renderMany is called
InitBatch == StartBatch /\ IdleStore /\ IdleColl /\ IdleResolve /\ IdleFetch /\ IdleDoctor /\ IdleScore /\ IdleManifest /\ IdleCli /\ IdlePool /\ IdleStdin
Spec == InitBatch /\ [][NextBatch]_vars

\* the snapshot file does not exist until the first sync
InitStore == IdleStore /\ IdleBatch /\ IdleColl /\ IdleResolve /\ IdleFetch /\ IdleDoctor /\ IdleScore /\ IdleManifest /\ IdleCli /\ IdlePool /\ IdleStdin
SpecStore == InitStore /\ [][NextStore]_vars
SpecStoreSequential == InitStore /\ [][NextStoreSequential]_vars

\* listCollections or collectionInfo is called
InitColl == StartColl /\ IdleBatch /\ IdleStore /\ IdleResolve /\ IdleFetch /\ IdleDoctor /\ IdleScore /\ IdleManifest /\ IdleCli /\ IdlePool /\ IdleStdin
SpecColl == InitColl /\ [][NextColl]_vars

\* a fuzzy resolution is requested
InitResolve == StartResolve /\ IdleBatch /\ IdleStore /\ IdleColl /\ IdleFetch /\ IdleDoctor /\ IdleScore /\ IdleManifest /\ IdleCli /\ IdlePool /\ IdleStdin
SpecResolve == InitResolve /\ [][NextResolve]_vars

\* fetchIcon is called
InitFetch == StartFetch /\ IdleBatch /\ IdleStore /\ IdleColl /\ IdleResolve /\ IdleDoctor /\ IdleScore /\ IdleManifest /\ IdleCli /\ IdlePool /\ IdleStdin
SpecFetch == InitFetch /\ [][NextFetch]_vars

\* one of the commands renderMany, listCollections, collectionInfo, fetchIcon,
\* doctor is called
InitCommand ==
    /\ IdleStore /\ IdleResolve /\ IdleScore /\ IdleManifest /\ IdleCli /\ IdlePool /\ IdleStdin
    /\ \/ StartBatch /\ IdleColl /\ IdleFetch /\ IdleDoctor
       \/ IdleBatch /\ StartColl /\ IdleFetch /\ IdleDoctor
       \/ IdleBatch /\ IdleColl /\ StartFetch /\ IdleDoctor
       \/ IdleBatch /\ IdleColl /\ IdleFetch /\ StartDoctor
NextCommand == NextBatch \/ NextColl \/ NextFetch \/ NextDoctor
SpecCommand == InitCommand /\ [][NextCommand]_vars

\* scoreCandidate is called
InitScore == StartScore /\ IdleBatch /\ IdleStore /\ IdleColl /\ IdleResolve /\ IdleFetch /\ IdleDoctor /\ IdleManifest /\ IdleCli /\ IdlePool /\ IdleStdin
SpecScore == InitScore /\ [][NextScore]_vars

\* renderMany is called with a manifest of records
InitManifest ==
    /\ StartManifest /\ IdleBatch /\ IdleStore /\ IdleColl /\ IdleResolve /\ IdleFetch
    /\ IdleDoctor /\ IdleScore /\ IdleCli /\ IdlePool /\ IdleStdin
SpecManifest == InitManifest /\ [][NextManifest]_vars

\* one command of the command line is run
InitCli ==
    /\ IdleStore /\ IdleResolve /\ IdleScore /\ IdleManifest /\ IdlePool /\ IdleStdin
    /\ \/ StartCli("resolve", ResolveArgs) /\ IdleBatch /\ IdleColl /\ IdleFetch /\ IdleDoctor
       \/ StartCli("render-many", {NoArgs}) /\ StartBatch /\ IdleColl /\ IdleFetch /\ IdleDoctor
       \/ /\ StartColl /\ IdleBatch /\ IdleFetch /\ IdleDoctor
          /\ StartCli(IF cmd = "list" THEN "collections list" ELSE "collections info", {NoArgs})
       \/ StartCli("fetch", {NoArgs}) /\ IdleBatch /\ IdleColl /\ StartFetch /\ IdleDoctor
       \/ StartCli("doctor", {NoArgs}) /\ IdleBatch /\ IdleColl /\ IdleFetch /\ StartDoctor
SpecCli == InitCli /\ [][NextCli]_vars

\* withConcurrency is called
InitPool ==
    /\ StartPool /\ IdleBatch /\ IdleStore /\ IdleColl /\ IdleResolve /\ IdleFetch
    /\ IdleDoctor /\ IdleScore /\ IdleManifest /\ IdleCli /\ IdleStdin
SpecPool == InitPool /\ [][NextPool]_vars

\* every pending worker promise eventually settles, and the continuation of a
\* settled promise eventually runs
FairSpecPool ==
    /\ SpecPool
    /\ \A i \in 0..(MaxItems - 1) : WF_vars(PoolWorkerSettle(i))
    /\ \A r \in 0..(MaxItems - 1) : WF_vars(PoolRunnerResume(r))
    /\ WF_vars(PoolStart)
    /\ WF_vars(PoolSettle)

\* resolve, search or render is run with --stdin
InitStdin ==
    /\ StartStdin /\ IdleBatch /\ IdleStore /\ IdleColl /\ IdleResolve /\ IdleFetch
    /\ IdleDoctor /\ IdleScore /\ IdleManifest /\ IdleCli /\ IdlePool
SpecStdin == InitStdin /\ [][NextStdin]_vars

----------------------------------------------------------------------------
(* Claims about the batch executor *)

HasReport == phase = "returned" /\ (outcome.ok \/ outcome.code = "RENDER_ERROR")
TheReport == IF outcome.ok THEN outcome.data ELSE outcome.details
StartedSet == {started[k] : k \in 1..Len(started)}
\* what rendering input item i yields, computed from the input alone
Succeeds(i) == renderIcon(items[i].queryOrIcon, opts.match, opts.autoSelect).ok
FailingInputs == {i \in DOMAIN items : ~Succeeds(i)}

\* C1: with failFast=false the batch returns exactly n results, and the result at
\* position i is the outcome of input item i with index field i, whatever the
\* concurrency and the order in which the workers complete, even if all fail.
C1_PositionalResults ==
    (phase = "returned" /\ ~opts.failFast /\ manifest = "ok" /\ N >= 1) =>
        /\ HasReport
        /\ ArrLen(TheReport.items) = N
        /\ \A i \in 0..(N - 1) :
              /\ TheReport.items[i] # Hole
              /\ TheReport.items[i].index = i
              /\ TheReport.items[i].queryOrIcon = items[i].queryOrIcon
              /\ TheReport.items[i].ok = Succeeds(i)

\* C1 witness: a batch of several items that all failed, whose workers completed
\* in an order different from the dispatch order, has returned.
C1_Witness ==
    /\ phase = "returned" /\ ~opts.failFast /\ N >= 3
    /\ FailingInputs = DOMAIN items
    /\ HasReport
    /\ finished # started
    /\ items[0].queryOrIcon = "word"

\* C2: with failFast=true no item after the first failing item is ever attempted,
\* and the report satisfies attempted + skipped = n = total.
C2_FailFastStops ==
    opts.failFast =>
        /\ \A i \in StartedSet : \A j \in 0..(i - 1) : Succeeds(j)
        /\ HasReport =>
              /\ TheReport.attempted + TheReport.skipped = N
              /\ TheReport.total = N
              /\ TheReport.attempted = Len(started)

\* C2 witness: a fail-fast batch returned after a failure with items left over.
C2_Witness ==
    /\ opts.failFast /\ HasReport
    /\ TheReport.failed = 1
    /\ TheReport.attempted >= 2
    /\ TheReport.skipped >= 1

\* C3: with failFast=true execution is strictly sequential whatever the
\* concurrency option: at most one item in flight, items attempted in increasing
\* index order, item i+1 started only after item i completed successfully.
C3_FailFastSequential ==
    opts.failFast =>
        /\ Cardinality(inflight) <= 1
        /\ \A k \in 1..Len(started) : started[k] = k - 1
        /\ \A k \in 2..Len(started) :
              /\ (k - 2) \in DOMAIN results
              /\ results[k - 2].ok
              /\ (k - 2) \notin inflight

\* C3 witness: fail-fast with a concurrency of at least 2 has its second item in flight.
C3_Witness ==
    /\ opts.failFast /\ opts.concurrency \div 2 >= 2
    /\ Len(started) >= 2
    /\ inflight = {1}

C4Bound ==
    LET floor == opts.concurrency \div 2
        atLeastOne == IF floor < 1 THEN 1 ELSE floor
    IN  IF atLeastOne > N THEN N ELSE atLeastOne

\* C4: in every state of withConcurrency the number of worker invocations in
\* flight is between 0 and min(max(1, floor(concurrency)), len(items)), which is
\* also the number of runners: below 1 behaves as 1, above len(items) as len(items).
C4_InFlightBound ==
    phase = "concurrent" =>
        /\ Cardinality(inflight) >= 0
        /\ Cardinality(inflight) <= C4Bound
        /\ ArrLen(runners) = C4Bound

\* C4 witness: a concurrency below 1 runs one item at a time through several items.
C4_Witness ==
    /\ phase = "concurrent" /\ opts.concurrency < 2 /\ N >= 2
    /\ Cardinality(inflight) = 1
    /\ Len(started) >= 2

\* C5: with failFast=false a failing item never prevents another item from being
\* attempted: while items remain some runner is still running, and the report
\* has attempted = n, skipped = 0 and succeeded + failed = n.
C5_AllAttempted ==
    ~opts.failFast =>
        /\ (phase = "concurrent" /\ cursor < N) =>
              \E r \in DOMAIN runners : runners[r].state = "awaiting"
        /\ HasReport =>
              /\ StartedSet = 0..(N - 1)
              /\ Len(started) = N
              /\ TheReport.attempted = N
              /\ TheReport.skipped = 0
              /\ TheReport.succeeded + TheReport.failed = N
              /\ TheReport.failed = Cardinality(FailingInputs)

\* C5 witness: a batch whose first item failed returned with later items rendered.
C5_Witness ==
    /\ ~opts.failFast /\ HasReport /\ N >= 2
    /\ 0 \in FailingInputs
    /\ TheReport.succeeded >= 1
    /\ TheReport.failed >= 1

----------------------------------------------------------------------------
(* Claims about the snapshot store *)

\* C6: the store replaces the snapshot atomically: a readIndex that runs
\* concurrently with a writeIndex returns the complete old snapshot (or absence)
\* or the complete new snapshot, never an empty, truncated or partial content.
C6_AtomicReplace ==
    rdPc = "done" => rdResult \in visible

\* C6: a read that overlapped a write of a non-empty snapshot has returned.
C6_Witness ==
    /\ rdPc = "done" /\ mutPc = "writing"
    /\ Cardinality(visible) >= 2
    /\ rdFd = mutFd

\* a readIndex completes in this step
ReadCompletes == rdPc' = "done" /\ (rdPc = "reading" \/ rdCount' # rdCount)
\* a clearIndex runs in this step
ClearRuns == mutOps' # mutOps /\ mutPc' = "idle"

\* C13: with the operations of the store run one after another, readIndex
\* returns absent if and only if no writeIndex has happened since the last
\* clearIndex or since the start, and otherwise exactly the icon list of the most
\* recent writeIndex with total equal to its length; clearIndex returns true if
\* and only if a snapshot existed immediately before it.
C13_StoreLifecycle ==
    [][/\ ReadCompletes => rdResult' = replaced
       /\ ClearRuns => (cleared' = "true" <=> replaced # Absent)]_vars

\* C13: a clear that found nothing and a write have run, and a read has
\* returned the written list
C13_Witness ==
    /\ rdPc = "done" /\ mutPc = "idle" /\ mutOps >= 2
    /\ cleared = "false"
    /\ rdResult = replaced /\ rdResult.kind = "snapshot" /\ rdResult.total = MaxIcons

\* a write and a clear that removed the snapshot have run, and a read found the store empty
C13_WitnessCleared ==
    /\ rdPc = "done" /\ mutPc = "idle" /\ mutOps >= 2
    /\ cleared = "true" /\ path = 0 /\ inodes # <<>>
    /\ rdResult = Absent /\ rdBuf = <<>> /\ rdCount = 1

----------------------------------------------------------------------------
(* Claims about the source selection of listCollections and collectionInfo *)

RemoteCalled == \E k \in 1..Len(cCalls) : cCalls[k] \in {"metadata", "data"}
LocalRead == \E k \in 1..Len(cCalls) : cCalls[k] = "readIndex"
Returned == cPc = "returned"
\* the source the answer names: data.source, or the source line of collectionInfo's plain answer
ReportedSource ==
    IF "source" \in DOMAIN cResult.data THEN cResult.data.source ELSE cResult.data.items[2][2]
\* a request that passes argument validation
ValidRequest == cmd = "list" \/ ToLowerCase(Trim(cPrefix)) # <<>>
IsSnapshot == idx.kind = "snapshot"
\* the icons of the snapshot that belong to the requested collection
LocalIconsOfPrefix ==
    {i \in 1..Len(idx.icons) :
        LET sep == IndexOf(idx.icons[i], ":")
        IN  sep > 0 /\ ToLowerCase(SubSeq(idx.icons[i], 1, sep)) = ToLowerCase(Trim(cPrefix))}
RemoteFailed ==
    \/ "metadata" \in {cCalls[k] : k \in 1..Len(cCalls)} /\ cPc # "metadata" /\ meta.kind # "ok"
    \/ "data" \in {cCalls[k] : k \in 1..Len(cCalls)} /\ cPc # "data" /\ collData.kind # "ok"
TheFailure == IF cPc = "returned" /\ Len(cCalls) > 0 /\ cCalls[Len(cCalls)] = "data" THEN collData ELSE meta

\* C7: with source index or the offline flag, listCollections and collectionInfo
\* never call the remote client; they answer from the local snapshot, and a
\* valid request with the snapshot absent fails with the local-index-missing error.
C7_LocalOnlyNeverRemote ==
    (cOpts.source = "index" \/ cOpts.offline) =>
        /\ ~RemoteCalled
        /\ (Returned /\ cResult.ok) => (IsSnapshot /\ ReportedSource = "index")
        /\ (Returned /\ ValidRequest /\ idx = Absent) =>
              /\ ~cResult.ok
              /\ cResult.code = "NOT_FOUND"
              /\ cResult.message = <<"Local index is required for this request",
                                     "Run icns index sync to create local cache.">>

\* C7 witness: an offline request in auto mode found no snapshot and has returned.
C7_Witness ==
    /\ cOpts.source = "auto" /\ cOpts.offline
    /\ cmd = "info" /\ ValidRequest
    /\ idx = Absent /\ Returned /\ meta.kind = "ok"

\* C8: with source api and offline false the local snapshot is never read, a
\* failing remote call (other than collectionInfo's 404 answer) makes the command
\* fail with the transport error API_ERROR, and no answer comes from the snapshot.
C8_RemoteOnlyTransportError ==
    (cOpts.source = "api" /\ ~cOpts.offline) =>
        /\ ~LocalRead
        /\ (Returned /\ cResult.ok) => ReportedSource = "api"
        /\ (Returned /\ RemoteFailed /\ ~(cmd = "info" /\ TheFailure.status = 404)) =>
              (~cResult.ok /\ cResult.code = "API_ERROR")

\* C8: a remote-only request whose remote call failed has returned.
C8_Witness ==
    /\ cOpts.source = "api" /\ ~cOpts.offline
    /\ Returned /\ RemoteFailed /\ IsSnapshot

\* C9: in auto mode with offline false the remote is called only when the local
\* path yields nothing (listCollections: snapshot absent; collectionInfo: snapshot
\* absent or without icons of the prefix); a non-empty local answer is returned
\* with source "index" and without any remote call.
C9_AutoLocalFirst ==
    (cOpts.source = "auto" /\ ~cOpts.offline) =>
        /\ RemoteCalled =>
              \/ ReturnsNull(idx)
              \/ cmd = "info" /\ IsSnapshot /\ LocalIconsOfPrefix = {}
        /\ (Returned /\ ValidRequest /\ IsSnapshot /\ (cmd = "list" \/ LocalIconsOfPrefix # {})) =>
              /\ cResult.ok
              /\ ReportedSource = "index"
              /\ ~RemoteCalled

\* C9 witness: collectionInfo in auto mode answered from the remote because the
\* snapshot holds no icon of the requested prefix.
C9_Witness ==
    /\ cOpts.source = "auto" /\ ~cOpts.offline /\ cmd = "info"
    /\ IsSnapshot /\ Len(idx.icons) > 0 /\ LocalIconsOfPrefix = {}
    /\ Returned /\ cResult.ok /\ ReportedSource = "api"

\* C9 second case: collectionInfo in auto mode answered from a snapshot holding
\* icons of the prefix under another letter case.
C9_WitnessLocal ==
    /\ cOpts.source = "auto" /\ ~cOpts.offline /\ cmd = "info"
    /\ cPrefix = <<" ", "A", " ">>
    /\ Returned /\ cResult.ok /\ ReportedSource = "index"


----------------------------------------------------------------------------
(* Fuzzy resolution *)

SearchCalled == \E i \in 1..Len(rCalls) : rCalls[i] = "search"
ResolveReturned == rPc = "returned"
ResultIds == {rResult.candidates[i].id : i \in 1..Len(rResult.candidates)}

\* a fuzzy resolution in auto mode, online, of a non-blank query, with a snapshot present
AutoOnlineWithSnapshot ==
    /\ Trim(rQuery) # <<>>
    /\ rOpts.source = "auto" /\ ~rOpts.offline
    /\ rIdx \notin {Absent, Threw}

\* the identifiers among ids that survive the allow-set and the minimum score
Survivors(ids) ==
    {id \in ids :
        /\ rOpts.collections # {} => parsePrefix(id) \in {ToLowerCase(c) : c \in rOpts.collections}
        /\ LET score == scoreCandidate(rQuery, id)
               boosted == IF parsePrefix(id) \in {ToLowerCase(c) : c \in rOpts.preferPrefixes}
                             /\ score.num < score.den
                          THEN Ratio(100 * score.num + 3 * score.den, 100 * score.den)
                          ELSE score
           IN  boosted.num * rOpts.minScore.den >= rOpts.minScore.num * boosted.den}

LocalSurvivors == Survivors(SetOf(rIdx.icons))
RemoteSurvivors == IF rRemote.kind = "ok" THEN Survivors(SetOf(rRemote.value)) ELSE {}

C10_WitnessLocalAmbiguous ==
    /\ AutoOnlineWithSnapshot /\ ResolveReturned
    /\ rResult.tag = "Ambiguous" /\ rResult.source = "index"
    /\ Cardinality(LocalSurvivors) > 1 /\ ~SearchCalled


----------------------------------------------------------------------------
(* Claims about the commands' error reporting *)

FetchReturned == fPc = "returned"
FetchCalled(name) == \E k \in 1..Len(fCalls) : fCalls[k] = name
DownloadFailed == FetchCalled("download") /\ fPc # "download" /\ fEnv.download.kind # "ok"
IsNotFoundAnswer(error) == error.kind = "http" /\ error.status = 404

\* C11: every failure of a remote call made by listCollections, collectionInfo
\* or fetchIcon, other than an HTTP 404 answer, is reported with the transport
\* error code API_ERROR, never as NOT_FOUND, AMBIGUOUS or a filesystem error.
C11_RemoteFailureIsApiError ==
    /\ (Returned /\ RemoteFailed /\ ~IsNotFoundAnswer(TheFailure)) =>
          (~cResult.ok /\ cResult.code = "API_ERROR")
    /\ (FetchReturned /\ DownloadFailed /\ ~IsNotFoundAnswer(fEnv.download)) =>
          (~fResult.ok /\ fResult.code = "API_ERROR")

\* C11: the download of fetchIcon failed without an HTTP answer (timeout,
\* connection failure) and fetchIcon has returned.
C11_Witness ==
    /\ FetchReturned /\ DownloadFailed
    /\ fEnv.download = OtherError


ErrorCodes ==
    {"INVALID_USAGE", "NOT_FOUND", "API_ERROR", "RENDER_ERROR", "FS_ERROR", "OUTPUT_EXISTS",
     "BROWSER_ERROR", "AMBIGUOUS"}

\* a result envelope: ok with data, or not ok with an error code and a message
IsEnvelope(r) ==
    /\ "ok" \in DOMAIN r
    /\ r.ok => "data" \in DOMAIN r
    /\ ~r.ok => /\ {"code", "message"} \subseteq DOMAIN r
                /\ r.code \in ErrorCodes
                /\ r.message # <<>>

\* C12: renderMany, fetchIcon, listCollections, collectionInfo and doctor always
\* return a result envelope, whatever a collaborator does: a command that has
\* been called either has a step to take or has returned, and what it returned
\* is an envelope (a failure has an error code and a message), never an exception.
C12_AlwaysEnvelope ==
    /\ phase \notin {"idle", "returned"} => ENABLED NextBatch
    /\ cPc \notin {"idle", "returned"} => ENABLED NextColl
    /\ fPc \notin {"idle", "returned"} => ENABLED NextFetch
    /\ dPc \notin {"idle", "returned"} => ENABLED NextDoctor
    /\ phase = "returned" => IsEnvelope(outcome)
    /\ cPc = "returned" => IsEnvelope(cResult)
    /\ fPc = "returned" => IsEnvelope(fResult)
    /\ dPc = "returned" => IsEnvelope(dResult)

\* C12: the file write of fetchIcon threw and fetchIcon has returned a failure
C12_Witness ==
    /\ FetchReturned /\ FetchCalled("writeFile") /\ fEnv.writeFails
    /\ ~fResult.ok

\* the manifest could not be read and renderMany has returned a failure
C12_WitnessManifest == phase = "returned" /\ manifest = "unreadable" /\ ~outcome.ok

\* the remote call of doctor threw and doctor has returned a failure
C12_WitnessDoctor == dPc = "returned" /\ dEnv.meta = "error" /\ ~dResult.ok


----------------------------------------------------------------------------
(* Claims about the scorer *)

Scored == sPc = "scored"
IsOne(score) == score.num = score.den /\ score.den # 0
IsZero(score) == score.num = 0 /\ score.den # 0
\* no letter or digit in the query: it is empty after normalization
QueryNormalizesToEmpty == \A i \in 1..Len(sQuery) : sQuery[i] \in {"-", ":", " "}

\* C14 as stated: every string scores 1.0 against itself, and a query that is
\* empty after normalization scores 0 against every candidate.
C14_SelfScoreOneEmptyZero ==
    Scored =>
        /\ IsOne(sScores.self)
        /\ QueryNormalizesToEmpty => IsZero(sScores.left) /\ IsZero(sScores.right)

\* C14 amended: every string that is not empty after normalization scores 1.0
\* against itself, and a query that is empty after normalization scores 0
\* against every candidate, itself included.
C14_SelfScoreOneUnlessEmpty ==
    Scored =>
        /\ ~QueryNormalizesToEmpty => IsOne(sScores.self)
        /\ QueryNormalizesToEmpty =>
              IsZero(sScores.left) /\ IsZero(sScores.right) /\ IsZero(sScores.self)

\* C14: a query of separators only has been scored against itself and against
\* a candidate that is also empty after normalization
C14_Witness ==
    /\ Scored /\ sQuery = <<"-">> /\ sLeft = <<>> /\ sRight = <<"a", ":", "b">>
    /\ IsZero(sScores.self)

\* a mixed-case query with a separator has been scored against itself
C14_WitnessSelf == Scored /\ sQuery = <<"A", "-", "b">> /\ IsOne(sScores.self)

\* the candidate's score comes from the exact, prefix or substring tier
TierHit(candidate) ==
    LET q == normalize(sQuery)
    IN  q # <<>> /\ (Includes(normalize(candidate), q) \/ Includes(normalize(NamePart(candidate)), q))

\* C15: a candidate whose score comes from the exact, prefix or substring tier
\* is never out-ranked by a candidate scored by the bigram Jaccard tail.
C15_TierNeverOutranked ==
    (Scored /\ ~QueryNormalizesToEmpty /\ TierHit(sLeft) /\ ~TierHit(sRight)) =>
        sScores.left.num * sScores.right.den >= sScores.right.num * sScores.left.den

\* C15: a prefix hit and a candidate of the Jaccard tail have been scored
C15_Witness ==
    /\ Scored /\ TierHit(sLeft) /\ ~TierHit(sRight)
    /\ sScores.left = Ratio(92, 100)
    /\ ~IsZero(sScores.right)


----------------------------------------------------------------------------
(* Claims about renderMany's manifest *)

\* the vectors that describe the record
VectorsOf(record) == {v \in Vectors : RecordOf(v) = record}

\* the options the render of item j was called with
OptionsOf(j) == mRendered[j].options

\* the record has no key of field f, or an explicitly empty one
Omits(record, f) ==
    \A v \in VectorsOf(record) : v.field = f => v.class = "absent"

\* no value of the record is blank or malformed
Plain(record) == \A v \in VectorsOf(record) : v.class \in {"specified", "absent"}

\* C16: every item is rendered with its own value of each optional field where
\* its record specifies one (false and 0 included) and with the batch-level
\* default where the record omits the field, whatever the other records hold
C16_ItemOverridesBatchDefault ==
    \A j \in 1..Len(mRendered) :
        Plain(mRecords[j]) =>
            \A f \in OptionalFields :
                /\ \A v \in VectorsOf(mRecords[j]) :
                        v.field = f /\ v.class = "specified" => OptionsOf(j)[f] = v.means
                /\ Omits(mRecords[j], f) => OptionsOf(j)[f] = mOpts[f]

\* a record that sets offline to false was rendered under a batch default of
\* true, next to a record that inherits the default
C16_Witness ==
    /\ mPc = "returned"
    /\ Len(mRendered) = 2
    /\ mRecords[1] = RecordOf(Vector("offline", Bool(FALSE), "offline", "specified", Bool(FALSE)))
    /\ mRecords[2] = ValidRecord
    /\ mOpts.offline = Bool(TRUE)
    /\ OptionsOf(1).offline = Bool(FALSE)
    /\ OptionsOf(2).offline = Bool(TRUE)

\* a size of 0 overrides a batch default of 1
C16_WitnessZero ==
    /\ Len(mRendered) >= 1
    /\ mRecords[1] = RecordOf(Vector("size", Num(0), "size", "specified", Num(0)))
    /\ mOpts.size = Num(1)
    /\ OptionsOf(1).size = Num(0)

\* the record has a string with a character other than white space under one
\* of the keys
HasText(record, keys) ==
    \E k \in keys : record[k].t = "string" /\ Trim(record[k].s) # <<>>

LacksMandatory(record) ==
    \/ ~HasText(record, {"queryOrIcon", "query", "icon"})
    \/ ~HasText(record, {"output", "path", "file"})

Malformed(record) == \E v \in VectorsOf(record) : v.class = "malformed"

\* the record has no value of field f, or a blank one
LeftOut(record, f) ==
    \A v \in VectorsOf(record) : v.field = f => v.class \in {"absent", "blank"}

Loaded == mPc \in {"rendering", "returned"}

\* C17: a manifest with a record that lacks a non-blank query or output is a
\* usage error and nothing of it is rendered; a manifest of well-formed records
\* loads as one item per record, in order, with every optional field that is
\* absent or blank in the record left undefined
C17_ManifestAllOrNothing ==
    Loaded =>
        IF \E j \in 1..Len(mRecords) : LacksMandatory(mRecords[j])
        THEN /\ mPc = "returned"
             /\ ~mResult.ok /\ mResult.code = "INVALID_USAGE"
             /\ mItems = <<>> /\ mRendered = <<>>
        ELSE IF \E j \in 1..Len(mRecords) : Malformed(mRecords[j])
        THEN TRUE
        ELSE /\ Len(mItems) = Len(mRecords)
             /\ \A j \in 1..Len(mRecords) :
                    /\ \E k \in {"queryOrIcon", "query", "icon"} :
                            /\ mRecords[j][k].t = "string"
                            /\ mItems[j].queryOrIcon = Str(Trim(mRecords[j][k].s))
                    /\ \E k \in {"output", "path", "file"} :
                            /\ mRecords[j][k].t = "string"
                            /\ mItems[j].output = Str(Trim(mRecords[j][k].s))
                    /\ \A f \in OptionalFields :
                            LeftOut(mRecords[j], f) => mItems[j][f] = Undefined

\* a record whose size is a string of white space was loaded as an item of size 0
C17_Witness ==
    /\ Loaded
    /\ Len(mRecords) = 1
    /\ mRecords[1] = RecordOf(Vector("size", Str(<<" ">>), "size", "blank", Undefined))
    /\ Len(mItems) = 1
    /\ mItems[1].size = Num(0)

\* a record without output after a valid one: usage error, nothing rendered
C17_WitnessRejected ==
    /\ mPc = "returned"
    /\ Len(mRecords) = 2
    /\ mRecords[1] = ValidRecord
    /\ mRecords[2] = [ValidRecord EXCEPT !.output = Null]
    /\ ~mResult.ok /\ mResult.code = "INVALID_USAGE"
    /\ mRendered = <<>>


----------------------------------------------------------------------------
(* Claims about fetchIcon *)

\* C20: fetchIcon called with the offline flag returns INVALID_USAGE without
\* resolving the query, calling the remote service, testing whether the output
\* file exists or writing it
C20_OfflineFetchRejected ==
    fPc # "idle" /\ fOpts.offline =>
        /\ fCalls = <<>>
        /\ fFile \in {"absent", "old"}
        /\ fPc \in {"called", "returned"}
        /\ FetchReturned => ~fResult.ok /\ fResult.code = "INVALID_USAGE"

\* an offline fetch of a resolvable id with force over an existing file has
\* returned: without the offline check it would have downloaded and overwritten
C20_Witness ==
    /\ FetchReturned
    /\ fOpts.offline /\ fOpts.force
    /\ fQuery = "id"
    /\ fEnv.download = RemoteOk(SVG)
    /\ fFile = "old"
    /\ fResult.code = "INVALID_USAGE"


----------------------------------------------------------------------------
(* Claims about the command line's exit codes *)

Exited == aPc = "exited"
HasResult == Exited /\ "ok" \in DOMAIN aResult

\* the resolve command was run with well-formed options and a query without ':'
\* in exact mode
ExactWithoutPrefix ==
    /\ aCommand = "resolve"
    /\ aArgs.query = "word"
    /\ aArgs.match = "exact"
    /\ aArgs.autoSelect \in AutoSelectModes \cup {"undefined"}
    /\ ~SourceModeInvalid(aArgs.source, aArgs.offline)

\* C18: in exact mode a query without the prefix separator is a usage error
\* (INVALID_USAGE, exit code 2) and not a not-found (NOT_FOUND, exit code 3)
C18_ExactWithoutPrefixIsUsageError ==
    Exited /\ ExactWithoutPrefix =>
        /\ HasResult
        /\ ~aResult.ok
        /\ aResult.code = "INVALID_USAGE"
        /\ exitCode = 2

\* resolve of a word in exact mode has exited with NOT_FOUND and exit code 3
C18_Witness ==
    /\ Exited /\ ExactWithoutPrefix
    /\ HasResult /\ ~aResult.ok
    /\ aResult.code = "NOT_FOUND"
    /\ exitCode = 3

\* C19: errorToExitCode maps INVALID_USAGE to 2, NOT_FOUND to 3, API_ERROR to 4,
\* RENDER_ERROR to 5, FS_ERROR and OUTPUT_EXISTS to 6, BROWSER_ERROR to 7 and
\* AMBIGUOUS to 8; a command that printed a result exits 0 exactly when the
\* result is ok, and a failing result exits with the code of its error, never 0
C19_ExitCodes ==
    /\ errorToExitCode("INVALID_USAGE") = 2
    /\ errorToExitCode("NOT_FOUND") = 3
    /\ errorToExitCode("API_ERROR") = 4
    /\ errorToExitCode("RENDER_ERROR") = 5
    /\ errorToExitCode("FS_ERROR") = 6
    /\ errorToExitCode("OUTPUT_EXISTS") = 6
    /\ errorToExitCode("BROWSER_ERROR") = 7
    /\ errorToExitCode("AMBIGUOUS") = 8
    /\ \A code \in ErrorCodes \cup {"undefined", "UNKNOWN"} : errorToExitCode(code) # 0
    /\ HasResult =>
        /\ exitCode = 0 <=> aResult.ok
        /\ ~aResult.ok => exitCode = errorToExitCode(aResult.code) /\ exitCode # 0
    /\ Exited /\ ~HasResult => exitCode # 0

\* fetch has exited with 6 after refusing to overwrite an existing file
C19_Witness ==
    /\ HasResult
    /\ aCommand = "fetch"
    /\ ~aResult.ok /\ aResult.code = "OUTPUT_EXISTS"
    /\ exitCode = 6

\* doctor has exited with 0 after an ok result
C19_WitnessOk == HasResult /\ aCommand = "doctor" /\ aResult.ok /\ exitCode = 0


----------------------------------------------------------------------------
(* Claims about withConcurrency *)

PoolResolved == pPc = "resolved"
PoolRejected == pPc = "rejected"

C21_WitnessFailure ==
    /\ 0 \in pThrows
    /\ PoolRejected
    /\ Len(SelectSeq(pStarted, LAMBDA i : i = 0)) = 1


\* every slot 0..n-1 of the results holds the result of its own index
AllSlotsFilled ==
    /\ DOMAIN pResults = 0..(pN - 1)
    /\ \A i \in 0..(pN - 1) : pResults[i] = Fulfilled(i)

\* no worker promise is pending or waits for its runner
AllWorkersCompleted == pInflight = {} /\ pSettled = EmptyArray

\* C22: if no worker invocation throws and every invocation eventually settles,
\* withConcurrency eventually resolves, for an empty list too (with an empty
\* result and no worker started); whenever it has resolved, every dispatched
\* worker has completed and every result slot 0..n-1 is filled
C22_EventuallyResolves ==
    /\ (pPc = "called" /\ pThrows = {}) ~> PoolResolved
    /\ [](PoolResolved => AllWorkersCompleted /\ AllSlotsFilled)
    /\ [](PoolResolved /\ pN = 0 => pStarted = <<>> /\ pResults = EmptyArray)

\* three items over two runners: resolved with all three slots filled
C22_Witness ==
    /\ PoolResolved
    /\ pN = 3
    /\ DOMAIN pRunners = {0, 1}
    /\ AllSlotsFilled
    /\ pStarted = <<0, 1, 2>>

\* the empty list: resolved without a runner
C22_WitnessEmpty == PoolResolved /\ pN = 0 /\ pRunners = EmptyArray /\ pStarted = <<>>


\* C24: once the promise of withConcurrency has settled, resolved or rejected,
\* no worker invocation is in flight and none is started any more
C24_NothingAfterSettle ==
    PoolResolved \/ PoolRejected => pInflight = {} /\ pLate = {}

\* withConcurrency has rejected because invocation 0 threw, while invocation 1
\* is still in flight and index 2 was dispatched after the rejection
C24_Witness ==
    /\ PoolRejected
    /\ 0 \in pThrows
    /\ 2 \in pLate
    /\ pInflight # {}


----------------------------------------------------------------------------
(* Claims about the scorer's ladder *)

\* the name of a candidate: the text after the prefix separator, or the whole
\* string if it has no separator
AfterSeparator(candidate) ==
    IF IndexOf(candidate, ":") = -1 THEN candidate
    ELSE SubSeq(candidate, IndexOf(candidate, ":") + 2, Len(candidate))

\* the ladder: 1.0 for equality with the normalized id or name, else 0.92 for
\* a prefix, else 0.82 for a substring, else the bigram Jaccard similarity of
\* query and name
Ladder(query, candidate) ==
    LET q == normalize(query)
        id == normalize(candidate)
        name == normalize(AfterSeparator(candidate))
    IN  CASE id = q \/ name = q -> Ratio(1, 1)
          [] StartsWith(id, q) \/ StartsWith(name, q) -> Ratio(92, 100)
          [] Includes(id, q) \/ Includes(name, q) -> Ratio(82, 100)
          [] OTHER -> jaccard(bigrams(q), bigrams(name))

InUnitInterval(score) == score.den > 0 /\ 0 <= score.num /\ score.num <= score.den

\* C23: scoreCandidate returns a value in [0,1], and for a query that is not
\* empty after normalization the value the ladder gives, where the name is the
\* text after the prefix separator
C23_ScoreFollowsLadder ==
    Scored =>
        /\ InUnitInterval(sScores.left) /\ InUnitInterval(sScores.right)
        /\ InUnitInterval(sScores.self)
        /\ ~QueryNormalizesToEmpty =>
              /\ Same(sScores.left, Ladder(sQuery, sLeft))
              /\ Same(sScores.right, Ladder(sQuery, sRight))
              /\ Same(sScores.self, Ladder(sQuery, sQuery))

\* the query 'ba' equals the text after the separator of 'a:b:a' once
\* normalized, but the score is that of the substring tier
C23_Witness ==
    /\ Scored
    /\ sQuery = <<"b", "a">>
    /\ sLeft = <<"a", ":", "b", ":", "a">>
    /\ normalize(AfterSeparator(sLeft)) = normalize(sQuery)
    /\ Same(sScores.left, Ratio(82, 100))


----------------------------------------------------------------------------
(* Claims about renderMany's report *)

\* renderMany has returned after loading a manifest with items
RenderedBatch == phase = "returned" /\ manifest = "ok" /\ N >= 1

\* the report of the returned batch, whether data or details
BatchReport == IF outcome.ok THEN outcome.data ELSE outcome.details

\* C25: renderMany returns ok exactly when every item of the manifest was
\* attempted and every item succeeded, and otherwise RENDER_ERROR whatever the
\* codes of the items, with the report as details; in the report succeeded +
\* failed = attempted = length of its items, skipped = total - attempted, and
\* its items are in manifest order with items[j].index = j
C25_ReportArithmetic ==
    RenderedBatch =>
        /\ outcome.ok <=> (StartedSet = 0..(N - 1) /\ FailingInputs = {})
        /\ ~outcome.ok => outcome.code = "RENDER_ERROR"
        /\ {"total", "attempted", "succeeded", "failed", "skipped", "items"}
              \subseteq DOMAIN BatchReport
        /\ BatchReport.total = N
        /\ BatchReport.succeeded + BatchReport.failed = BatchReport.attempted
        /\ BatchReport.attempted = ArrLen(BatchReport.items)
        /\ BatchReport.attempted = Len(started)
        /\ BatchReport.skipped = BatchReport.total - BatchReport.attempted
        /\ DOMAIN BatchReport.items = 0..(BatchReport.attempted - 1)
        /\ \A j \in DOMAIN BatchReport.items :
              /\ BatchReport.items[j] # Hole
              /\ BatchReport.items[j].index = j
              /\ BatchReport.items[j].queryOrIcon = items[j].queryOrIcon
              /\ BatchReport.items[j].ok = Succeeds(j)

\* a fail-fast batch stopped at its first item, which failed with NOT_FOUND:
\* RENDER_ERROR with one attempted and the rest skipped
C25_Witness ==
    /\ RenderedBatch
    /\ opts.failFast /\ N = 3
    /\ ~outcome.ok /\ outcome.code = "RENDER_ERROR"
    /\ BatchReport.items[0].code = "NOT_FOUND"
    /\ BatchReport.attempted = 1
    /\ BatchReport.skipped = 2

\* a concurrent batch whose items all succeeded has returned ok
C25_WitnessOk ==
    /\ RenderedBatch /\ ~opts.failFast /\ N = 3 /\ outcome.ok
    /\ BatchReport.succeeded = 3


----------------------------------------------------------------------------
(* Claims about the source mode of a render *)

ApiOffline(o) == o.source = Str(API) /\ o.offline = Bool(TRUE)

\* C26: the batch-level pair (source, offline) has passed validateSourceMode,
\* and no item is rendered with source api together with offline true once its
\* manifest overrides are merged with the batch defaults
C26_NeverApiOffline ==
    ~ApiOffline(mOpts) =>
        \A j \in 1..Len(mRendered) : ~ApiOffline(OptionsOf(j))

\* the batch runs with --source api, the record sets offline to "Y", and the
\* item was rendered with source api and offline true
C26_Witness ==
    /\ Len(mRendered) >= 1
    /\ mOpts.source = Str(API) /\ mOpts.offline = Bool(FALSE)
    /\ mRecords[1] = RecordOf(Vector("offline", Str(<<"Y">>), "offline", "specified", Bool(TRUE)))
    /\ ApiOffline(OptionsOf(1))


----------------------------------------------------------------------------
(* Claims about the --stdin batch modes *)

\* the batch got past reading (and, for render, parsing) its lines
Looped == bLines # <<>>
StdinExited == bPc = "exited"

FailingLines == {k \in 1..Len(bLines) : ~bOutcomes[k].ok}
FirstFailing == CHOOSE k \in FailingLines : \A j \in FailingLines : k <= j

\* C27: every line is processed in input order, also after a line has failed,
\* and the process exit code is 0 exactly when every line succeeded and
\* otherwise the exit code of the first failing line
C27_StdinBatchExitCode ==
    /\ Looped => /\ Len(bPrinted) <= Len(bLines)
                 /\ \A k \in 1..Len(bPrinted) : bPrinted[k] = bOutcomes[k]
                 /\ Len(bPrinted) < Len(bLines) => bPc = "looping"
    /\ Looped /\ StdinExited =>
          /\ Len(bPrinted) = Len(bLines)
          /\ bProcessExit = 0 <=> FailingLines = {}
          /\ FailingLines # {} =>
                bProcessExit = errorToExitCode(bOutcomes[FirstFailing].code)

\* two lines: the first failed with NOT_FOUND, the second with API_ERROR; both
\* were processed and the exit code is 3
C27_Witness ==
    /\ StdinExited /\ Looped
    /\ Len(bLines) = 2 /\ Len(bPrinted) = 2
    /\ bOutcomes[1].ok = FALSE /\ bOutcomes[1].code = "NOT_FOUND"
    /\ bOutcomes[2].ok = FALSE /\ bOutcomes[2].code = "API_ERROR"
    /\ bProcessExit = 3

\* a line of the input: text, a tab, text (blank lines are not lines)
WellFormedLine(raw) ==
    \E t \in 1..Len(raw) :
        /\ raw[t] = TAB
        /\ \E i \in 1..(t - 1) : raw[i] \notin {" ", TAB}
        /\ \E i \in (t + 1)..Len(raw) : raw[i] \notin {" ", TAB}
BlankLine(raw) == \A i \in 1..Len(raw) : raw[i] \in {" ", TAB}

HasMalformedLine ==
    \E k \in 1..Len(bRaw) : ~BlankLine(bRaw[k]) /\ ~WellFormedLine(bRaw[k])

\* C28: render --stdin parses every line before the first render: with a
\* malformed line anywhere in the input nothing is ever rendered, the lines
\* before it included, and the command exits with the usage error code
C28_ParseBeforeRender ==
    bCommand = "render" /\ HasMalformedLine =>
        /\ bPrinted = <<>>
        /\ bPc \in {"called", "exited"}
        /\ StdinExited => bProcessExit = 2

\* a well-formed line followed by a line without a tab: exit 2, nothing rendered
C28_Witness ==
    /\ bCommand = "render"
    /\ StdinExited
    /\ bRaw = << <<"a", TAB, "a">>, <<"a", " ", "a">> >>
    /\ bPrinted = <<>>
    /\ bProcessExit = 2

\* two well-formed lines were rendered in order
C28_WitnessRendered ==
    /\ bCommand = "render" /\ StdinExited /\ ~HasMalformedLine
    /\ Len(bRaw) = 2 /\ Len(bPrinted) = 2


\* C29: without force fetchIcon never overwrites an existing output file: when
\* the path exists at the check it returns OUTPUT_EXISTS without a download or
\* a write; the write happens only after a successful download, so a failed
\* download leaves the output path as it was
C29_NoOverwriteWithoutForce ==
    /\ fPc # "idle" /\ ~fOpts.force /\ fFileAtCall = "old" =>
          /\ ~FetchCalled("download") /\ ~FetchCalled("mkdir") /\ ~FetchCalled("writeFile")
          /\ fFile = fFileAtCall
          /\ FetchReturned /\ FetchCalled("access") /\ ~fEnv.accessFails =>
                ~fResult.ok /\ fResult.code = "OUTPUT_EXISTS"
    /\ FetchCalled("writeFile") => FetchCalled("download") /\ fEnv.download.kind = "ok"
    /\ fFile # fFileAtCall => FetchCalled("writeFile")
    /\ DownloadFailed => fFile = fFileAtCall

\* a fetch without force over an existing file has returned OUTPUT_EXISTS
C29_Witness ==
    /\ FetchReturned
    /\ ~fOpts.force /\ ~fOpts.offline
    /\ fFileAtCall = "old" /\ fFile = "old"
    /\ fCalls = <<"resolveIcon", "access">>
    /\ fResult.code = "OUTPUT_EXISTS"

\* a forced fetch whose download failed has left the existing file alone
C29_WitnessDownloadFailed ==
    /\ FetchReturned /\ fOpts.force /\ DownloadFailed /\ fFileAtCall = "old" /\ fFile = "old"


----------------------------------------------------------------------------
(* Claims about what counts as an absent snapshot *)

IndexRead == LocalRead /\ cPc # "readIndex"
FileMissing == idx = Absent

C30_UnreadableIsFsError ==
    /\ (Returned /\ ValidRequest /\ ReadsIndex(cOpts) /\ idx = Threw) =>
          (~cResult.ok /\ cResult.code = "FS_ERROR")
    /\ idx = Threw /\ ReadsIndex(cOpts) => ~RemoteCalled

C30_WitnessUnreadable ==
    /\ cOpts.source = "auto" /\ ~cOpts.offline /\ idx = Threw
    /\ Returned /\ cResult.code = "FS_ERROR" /\ ~RemoteCalled /\ meta.kind = "ok"

====
